---- MODULE Spec2Model ----
(***************************************************************************)
(* A model of CTFloodBot's update multiplexer (pkg/services/multiplexer.go),*)
(* its matcher groups (pkg/models/models.go), the gRPC registrar's entry    *)
(* point and the retry primitives (pkg/retry/retry.go).                     *)
(***************************************************************************)
EXTENDS Integers, Sequences, FiniteSets, TLC

\* ------------------------------------------------------------------ bounds
\* Subscriptions the environment registers on one multiplexer.
MaxSubs == 2
\* Calls of Serve the environment makes.
MaxServe == 2
\* NewMultiplexer(bufferLen): the capacity of every subscription channel.
BufferLen == 1

\* ------------------------------------------------------------------ matchers
\* A compiled regular expression. Two shapes are modelled:
\*   "^/[xyz]$"  ->  ReClass({"x", "y", "z"})      ("^/a$" is ReClass({"a"}))
\*   ".*"        ->  ReAny
\* A text is a sequence of one-character strings.
ReClass(cls) == [kind |-> "class", cls |-> cls]
ReAny == [kind |-> "any", cls |-> {}]

\* regexp.Regexp.MatchString for the two shapes.
RegexMatch(re, s) ==
    IF re.kind = "any" THEN TRUE
    ELSE Len(s) = 2 /\ s[1] = "/" /\ s[2] \in re.cls

\* A nil MatcherGroup; a non-nil group is a sequence of regexes.
NilGroup == <<[kind |-> "nil", cls |-> {}]>>

\* len(matchers)
GroupLen(g) == IF g = NilGroup THEN 0 ELSE Len(g)

MatchStringAll(g, s) == GroupLen(g) > 0

\* MatcherGroup.MatchString: true iff some regex of the group matches.
MatchString(g, s) == \E i \in 1..GroupLen(g) : RegexMatch(g[i], s)

\* ------------------------------------------------------------------ inputs
TextA == <<"/", "a">>
TextB == <<"/", "b">>
TextC == <<"/", "c">>
TextG == <<"/", "g">>
TextEmpty == <<>>

\* Groups Register rejects.
EmptyGroups == {NilGroup, <<>>}

\* What the environment registers with in free runs.
Groups ==
    { <<ReClass({"b"}), ReClass({"a"})>>,
      <<ReAny>> }

\* A tgbotapi.Update: UpdateID, and Message (nil, or a message with Text).
Update(id, hasMsg, text) == [id |-> id, hasMsg |-> hasMsg, text |-> text]

\* What the environment serves in free runs (the id aside): an update
\* without a Message, a message without text, a message with text "/a".
Payloads ==
    { [hasMsg |-> FALSE, text |-> TextEmpty],
      [hasMsg |-> TRUE, text |-> TextEmpty],
      [hasMsg |-> TRUE, text |-> TextA] }

VARIABLES
    curKey,      \* mapMux.curKey
    handlers,    \* key -> MatcherGroup of the muxHandler allocated under key
    ctxDone,     \* key -> the handler's ctx is done
    channel,     \* key -> the buffered contents of the handler's channel
    closes,      \* key -> times close(h.channel) has run
    store,       \* the keys of mapMux.store
    regPending,  \* keys allocated by a Register call that has not stored yet
    regErr,      \* the error of the last Register call that returned
    nServed,     \* calls of Serve so far
    sUpdate,     \* the update the running call of Serve was given
    sPc,         \* where the Serve task is: "idle", "range", "send"
    sCur,        \* the key the Range callback is blocked sending to (0: none)
    sVisited,    \* keys the running Range has called back for
    sTodo,       \* keys that were stored when the running Range began
    lastRecv,    \* key -> the last update its consumer received
    received,    \* key -> all its consumer received (scripted runs only)
    panicked,    \* "none", or the runtime panic that ended the program
    script       \* the rest of a scripted scenario (free runs: <<>>)

muxVars == <<curKey, handlers, ctxDone, channel, closes, store, regPending,
             regErr, nServed, sUpdate, sPc, sCur, sVisited, sTodo, lastRecv,
             received, panicked, script>>

serveVars == <<nServed, sUpdate, sPc, sCur, sVisited, sTodo>>

\* One call of retry.Backoff, retry.Static or retry.Recover.
VARIABLES
    rVer,        \* which Recover: 1 (retry.go:43-60) or 2 (retry.go:146-163)
    rStrategy,   \* "Backoff" or "Static"
    rOp,         \* what op returns on its 1st, 2nd, ... invocation
    rEt,         \* the error transformers, in order
    rPc,         \* "off", "call", "sleep", "done"
    rCalls,      \* invocations of op so far
    rRet,        \* the error the call returned
    rNext,       \* Backoff's closure variable next
    rSlept       \* the delay of the last sleep

retryVars == <<rVer, rStrategy, rOp, rEt, rPc, rCalls, rRet, rNext, rSlept>>

\* The gRPC registrar (one call of Register) with its mock RPC client and the
\* consumer of the returned channel.
VARIABLES
    gPc,         \* "off", "rejected", or where the goroutine is
    gRequest,    \* RegisterRequest.Matchers of the call
    gRegErr,     \* the error Register returned ("none": not called)
    gGoroutines, \* goroutines Register has started
    gRpcCalls,   \* RegisterHandler RPCs issued
    gRecvs,      \* stream.Recv calls made
    gCtxDone,    \* the ctx passed to Register is done
    gPending,    \* the PossibleUpdate the goroutine is blocked sending
    gOut,        \* what the consumer has received from updateCh
    gConsuming,  \* the consumer still receives
    gNext,       \* the next delay of the running Backoff
    gSlept,      \* the delay of the last sleep
    gLog,        \* what each RegisterHandler and Recv call returned, in order
    gRun         \* RegisterAndRun, when it is the consumer

grpcVars == <<gPc, gRequest, gRegErr, gGoroutines, gRpcCalls, gRecvs,
              gCtxDone, gPending, gOut, gConsuming, gNext, gSlept, gLog, gRun>>

\* The long-poll streamer, the raw stream it feeds, MappedStream over that
\* stream and the consumer of the mapped stream.
VARIABLES
    lpPc,        \* where the goroutine of longPollStreamer.Stream is
    lpCtxDone,   \* the ctx given to Stream is done
    lpResp,      \* the response being handled
    lpLeft,      \* updates of the response still to put on the stream
    lpPolls,     \* polls issued
    lpErr,       \* the error about to be put on the stream
    raw,         \* the input stream of MappedStream: buffered items
    rawClosed,   \* the input stream is closed
    fed,         \* every item put on the input stream, in order
    dPc,         \* the parallelizing goroutine
    dItem,       \* the item it read
    dCount,      \* items it has read; the n-th gets completion channel n
    jobs,        \* the jobs channel
    outOrder,    \* the outOrder channel
    wPc,         \* each worker
    wJob,        \* its job: completion channel and result
    oPc,         \* the synchronizing goroutine
    oCh,         \* the completion channel it took from outOrder
    oVal,        \* the result it received
    out,         \* the output stream: buffered items
    outLog,      \* every item the consumer read from the output stream
    cPc,         \* the consumer
    mapperCalls  \* the raw values mapper was invoked with, by item number

lpVars == <<lpPc, lpCtxDone, lpResp, lpLeft, lpPolls, lpErr>>

msVars == <<dPc, dItem, dCount, jobs, outOrder, wPc, wJob, oPc, oCh, oVal,
            out, mapperCalls>>

msVarsButOut == <<dPc, dItem, dCount, jobs, outOrder, wPc, wJob, oPc, oCh,
                  oVal, mapperCalls>>

streamVars == <<lpVars, raw, rawClosed, fed, msVars, outLog, cPc>>

\* One RPC arriving at the server-side interceptor.
VARIABLES
    aKind,   \* "unary" or "stream"
    aMd,     \* the incoming metadata of the request's context
    aPc,     \* "off", "start", "handler", "rejected", "done", "raw"
    aRet,    \* the status code the interceptor returned on its own
    aCalls,  \* invocations of the RPC handler
    aCtx,    \* the incoming metadata of the context the handler was given
    aGot     \* what ClientFromCtx returned

authVars == <<aKind, aMd, aPc, aRet, aCalls, aCtx, aGot>>

\* A static authenticator and the table it was built from.
VARIABLES
    saCtor,    \* the constructor the program calls
    saCaller,  \* the caller's token -> Client map
    saGiven,   \* that map as it was when NewStaticAuthenticator was called
    saAuth,    \* staticAuthenticator.clients
    saPc,      \* "off", "new", "built", "called"
    saToken,   \* the token of the last Authenticate call
    saRes,     \* what that call returned
    saEdits    \* changes the caller made to its map after construction

saVars == <<saCtor, saCaller, saGiven, saAuth, saPc, saToken, saRes, saEdits>>

\* One update on its way from Telegram's JSON to a handler: parsed on
\* ingest, serialized for the RegisterHandler stream, parsed by the registrar.
VARIABLES
    jIn,    \* the JSON of the update as Telegram sent it
    jUpd,   \* the tgbotapi.Update the proxy holds
    jWire,  \* genproto.Update.Json
    jGot,   \* what the registrar's json.Unmarshal produced
    jPc     \* "off", "ingest", "dropped", "held", "wire", "done"

jVars == <<jIn, jUpd, jWire, jGot, jPc>>

\* One RegisterHandler call on the proxy's gRPC server.
VARIABLES
    hPc,       \* "off", "called", "returned"
    hReq,      \* RegisterRequest.Matchers
    hCtxDone,  \* the stream's context is done
    hRet,      \* the status code the call was answered with
    hSent      \* the genproto.Updates sent on the stream, in order

hVars == <<hPc, hReq, hCtxDone, hRet, hSent>>

\* The long-poll streamer's getUpdates requests and their offset parameter.
VARIABLES
    qPc,       \* "off", "poll", "polled", "sendErr", "emit", "send", "done"
    qOffset,   \* params["offset"]
    qReqs,     \* every poll: its offset, whether ctx was live, its outcome
    qResp,     \* what the last poll ended with
    qIdx,      \* parseUpdates' position in Result
    qEmitted,  \* what was put on the stream, in order
    qCtxDone,  \* the ctx given to Stream is done
    qPolls,    \* polls made under a live context
    qUnread    \* items in the stream's buffer

qVars == <<qPc, qOffset, qReqs, qResp, qIdx, qEmitted, qCtxDone, qPolls, qUnread>>

\* One call of Client.Run with the goroutine its registrar starts.
VARIABLES
    clIn,       \* the Client's fields: which are set
    clPc,       \* where Run is
    clRet,      \* the error Run returned
    clCtxDone,  \* the ctx given to Run is done
    clLog,      \* the dial and every RPC made, in order
    clNext,     \* Backoff's next delay in getConfig
    clSlept,    \* the delay of getConfig's last sleep
    clErrCh,    \* errorch: the buffered error (nil: none)
    clHandled,  \* the UpdateIDs Handler.Serve was called with, in order
    rgPc,       \* where the registrar's goroutine is
    rgUpdates   \* updates the goroutine received from the stream

clVars == <<clIn, clPc, clRet, clCtxDone, clLog, clNext, clSlept, clErrCh,
            clHandled, rgPc, rgUpdates>>

\* The HTTP proxy's AuthMiddleware serving requests one after another.
VARIABLES
    mwPc,       \* "idle", "request" (one is to be served) or "served"
    mwHasAuth,  \* p.AuthProvider is not nil
    mwPath,     \* r.URL.Path of the request
    mwStatus,   \* the status written by the middleware, 0 if none
    mwNext      \* what next.ServeHTTP was called with, if it was

mwVars == <<mwPc, mwHasAuth, mwPath, mwStatus, mwNext>>

nonMuxVars == <<retryVars, grpcVars, streamVars, authVars, saVars, jVars, hVars, qVars, clVars, mwVars>>

nonRetryVars == <<muxVars, grpcVars, streamVars, authVars, saVars, jVars, hVars, qVars, clVars, mwVars>>

nonGrpcVars == <<muxVars, retryVars, streamVars, authVars, saVars, jVars, hVars, qVars, clVars, mwVars>>

nonStreamVars == <<muxVars, retryVars, grpcVars, authVars, saVars, jVars, hVars, qVars, clVars, mwVars>>

nonAuthVars == <<muxVars, retryVars, grpcVars, streamVars, saVars, jVars, hVars, qVars, clVars, mwVars>>

nonSaVars == <<muxVars, retryVars, grpcVars, streamVars, authVars, jVars, hVars, qVars, clVars, mwVars>>

nonJVars == <<muxVars, retryVars, grpcVars, streamVars, authVars, saVars, hVars, qVars, clVars, mwVars>>

nonHVars == <<muxVars, retryVars, grpcVars, streamVars, authVars, saVars, jVars, qVars, clVars, mwVars>>

nonQVars == <<muxVars, retryVars, grpcVars, streamVars, authVars, saVars, jVars, hVars, clVars, mwVars>>

nonClVars == <<muxVars, retryVars, grpcVars, streamVars, authVars, saVars, jVars, hVars, qVars, mwVars>>

nonMwVars == <<muxVars, retryVars, grpcVars, streamVars, authVars, saVars, jVars, hVars, qVars, clVars>>

Keys == 1..curKey

\* Serve calls that have returned.
ServeReturned == IF sPc = "idle" THEN nServed ELSE nServed - 1

\* No call of Serve is running.
NoUpdate == [id |-> 0, hasMsg |-> FALSE, text |-> <<>>]

\* NewMultiplexer(bufferLen)
MuxInit ==
    /\ curKey = 0
    /\ handlers = <<>>
    /\ ctxDone = <<>>
    /\ channel = <<>>
    /\ closes = <<>>
    /\ store = {}
    /\ regPending = {}
    /\ regErr = "none"
    /\ nServed = 0
    /\ sUpdate = NoUpdate
    /\ sPc = "idle"
    /\ sCur = 0
    /\ sVisited = {}
    /\ sTodo = {}
    /\ lastRecv = <<>>
    /\ received = <<>>
    /\ panicked = "none"

Running == panicked = "none"

\* ------------------------------------------------------------------ Register
RegisterBeginNoCheck(g) ==
    /\ Running
    /\ curKey' = curKey + 1
    /\ handlers' = Append(handlers, g)
    /\ ctxDone' = Append(ctxDone, FALSE)
    /\ channel' = Append(channel, <<>>)
    /\ closes' = Append(closes, 0)
    /\ lastRecv' = Append(lastRecv, NoUpdate)
    /\ received' = Append(received, <<>>)
    /\ regPending' = regPending \cup {curKey + 1}
    /\ UNCHANGED <<regErr, store, serveVars, panicked>>

RegisterBeginReplay(g) ==
    /\ Running
    /\ GroupLen(g) >= 1
    /\ curKey' = curKey + 1
    /\ handlers' = Append(handlers, g)
    /\ ctxDone' = Append(ctxDone, FALSE)
    /\ channel' = Append(channel,
                         IF nServed > 0
                         THEN <<Update(nServed, TRUE, TextA)>> ELSE <<>>)
    /\ closes' = Append(closes, 0)
    /\ lastRecv' = Append(lastRecv, NoUpdate)
    /\ received' = Append(received, <<>>)
    /\ regPending' = regPending \cup {curKey + 1}
    /\ UNCHANGED <<regErr, store, serveVars, panicked>>

\* Register up to and including the atomic increment of curKey and the
\* allocation of the handler and its channel; the rejected call returns here.
RegisterBegin(g) ==
    /\ Running
    /\ IF GroupLen(g) < 1
       THEN /\ regErr' = "ErrNoMatchers"
            /\ UNCHANGED <<curKey, handlers, ctxDone, channel, closes,
                           regPending, lastRecv, received>>
       ELSE /\ curKey' = curKey + 1
            /\ handlers' = Append(handlers, g)
            /\ ctxDone' = Append(ctxDone, FALSE)
            /\ channel' = Append(channel, <<>>)
            /\ closes' = Append(closes, 0)
            /\ lastRecv' = Append(lastRecv, NoUpdate)
            /\ received' = Append(received, <<>>)
            /\ regPending' = regPending \cup {curKey + 1}
            /\ UNCHANGED regErr
    /\ UNCHANGED <<store, serveVars, panicked>>

RegisterStoreLosesOthers(k) ==
    /\ Running
    /\ k \in regPending
    /\ store' = {k}
    /\ regPending' = regPending \ {k}
    /\ regErr' = "nil"
    /\ UNCHANGED <<curKey, handlers, ctxDone, channel, closes, serveVars,
                   lastRecv, received, panicked, script>>

\* m.store.Store(key, h); return h.channel, nil
RegisterStore(k) ==
    /\ Running
    /\ k \in regPending
    /\ store' = store \cup {k}
    /\ regPending' = regPending \ {k}
    /\ regErr' = "nil"
    /\ UNCHANGED <<curKey, handlers, ctxDone, channel, closes, serveVars,
                   lastRecv, received, panicked, script>>

\* The owner of a subscription cancels its context.
Cancel(k) ==
    /\ Running
    /\ k \in Keys
    /\ ~ctxDone[k]
    /\ ctxDone' = [ctxDone EXCEPT ![k] = TRUE]
    /\ UNCHANGED <<curKey, handlers, channel, closes, store, regPending,
                   regErr, serveVars, lastRecv, received, panicked, script>>

\* The consumer of a subscription receives the next buffered update.
Receive(k) ==
    /\ Running
    /\ k \in Keys
    /\ channel[k] # <<>>
    /\ lastRecv' = [lastRecv EXCEPT ![k] = Head(channel[k])]
    /\ IF script # <<>>
       THEN received' = [received EXCEPT ![k] = Append(@, Head(channel[k]))]
       ELSE UNCHANGED received
    /\ channel' = [channel EXCEPT ![k] = Tail(@)]
    /\ UNCHANGED <<curKey, handlers, ctxDone, closes, store, regPending,
                   regErr, serveVars, panicked, script>>

\* ------------------------------------------------------------------ Serve
\* mapMux.delete: m.store.Delete(key); close(h.channel). Closing a closed
\* channel panics.
Delete(k) ==
    /\ store' = store \ {k}
    /\ IF closes[k] > 0
       THEN panicked' = "close of closed channel" /\ UNCHANGED closes
       ELSE closes' = [closes EXCEPT ![k] = @ + 1] /\ UNCHANGED panicked

ServeBeginNoNilCheck(p) ==
    /\ Running
    /\ sPc = "idle"
    /\ nServed' = nServed + 1
    /\ sUpdate' = Update(nServed + 1, p.hasMsg, p.text)
    /\ sPc' = "range"
    /\ sTodo' = store
    /\ sVisited' = {}
    /\ UNCHANGED <<curKey, handlers, ctxDone, channel, closes, store,
                   regPending, regErr, sCur, lastRecv, received, panicked>>

\* Serve up to the call of Range: an update without a Message returns at
\* once. Range calls back at least for the keys stored when it begins.
ServeBegin(p) ==
    /\ Running
    /\ sPc = "idle"
    /\ nServed' = nServed + 1
    /\ IF ~p.hasMsg
       THEN UNCHANGED <<sUpdate, sPc, sTodo, sVisited>>
       ELSE /\ sUpdate' = Update(nServed + 1, p.hasMsg, p.text)
            /\ sPc' = "range"
            /\ sTodo' = store
            /\ sVisited' = {}
    /\ UNCHANGED <<curKey, handlers, ctxDone, channel, closes, store,
                   regPending, regErr, sCur, lastRecv, received, panicked>>

ServeVisitNoReturn(k) ==
    /\ Running
    /\ sPc = "range"
    /\ k \in store \ sVisited
    /\ sVisited' = sVisited \cup {k}
    /\ IF ctxDone[k] THEN Delete(k) ELSE UNCHANGED <<store, closes, panicked>>
    /\ IF MatchString(handlers[k], sUpdate.text)
       THEN sPc' = "send" /\ sCur' = k
       ELSE UNCHANGED <<sPc, sCur>>
    /\ UNCHANGED <<curKey, handlers, ctxDone, channel, regPending, regErr,
                   nServed, sUpdate, sTodo, lastRecv, received, script>>

ServeVisitCheckAfterMatch(k) ==
    /\ Running
    /\ sPc = "range"
    /\ k \in store \ sVisited
    /\ sVisited' = sVisited \cup {k}
    /\ IF MatchString(handlers[k], sUpdate.text)
       THEN IF ctxDone[k]
            THEN Delete(k) /\ UNCHANGED <<sPc, sCur>>
            ELSE sPc' = "send" /\ sCur' = k
                 /\ UNCHANGED <<store, closes, panicked>>
       ELSE UNCHANGED <<sPc, sCur, store, closes, panicked>>
    /\ UNCHANGED <<curKey, handlers, ctxDone, channel, regPending, regErr,
                   nServed, sUpdate, sTodo, lastRecv, received, script>>

ServeVisitNoMatch(k) ==
    /\ Running
    /\ sPc = "range"
    /\ k \in store \ sVisited
    /\ sVisited' = sVisited \cup {k}
    /\ IF ctxDone[k]
       THEN Delete(k) /\ UNCHANGED <<sPc, sCur>>
       ELSE sPc' = "send" /\ sCur' = k
            /\ UNCHANGED <<store, closes, panicked>>
    /\ UNCHANGED <<curKey, handlers, ctxDone, channel, regPending, regErr,
                   nServed, sUpdate, sTodo, lastRecv, received, script>>

\* One call of the Range callback, up to its second select: the fail-fast
\* select on ctx.Done(), then the match. Range calls back at most once for a
\* key, and may or may not call back for a key stored after it began.
ServeVisit(k) ==
    /\ Running
    /\ sPc = "range"
    /\ k \in store \ sVisited
    /\ sVisited' = sVisited \cup {k}
    /\ IF ctxDone[k]
       THEN Delete(k) /\ UNCHANGED <<sPc, sCur>>
       ELSE IF MatchString(handlers[k], sUpdate.text)
            THEN sPc' = "send" /\ sCur' = k
                 /\ UNCHANGED <<store, closes, panicked>>
            ELSE UNCHANGED <<sPc, sCur, store, closes, panicked>>
    /\ UNCHANGED <<curKey, handlers, ctxDone, channel, regPending, regErr,
                   nServed, sUpdate, sTodo, lastRecv, received, script>>

\* mvalue.channel <- update. A send on a closed channel panics.
ChanSend(k, u) ==
    IF closes[k] > 0
    THEN panicked' = "send on closed channel" /\ UNCHANGED channel
    ELSE channel' = [channel EXCEPT ![k] = Append(@, u)]
         /\ UNCHANGED panicked

\* The send case of a select is ready when the buffer has room; on a closed
\* channel it is ready at once (and panics).
SendReady(k) == closes[k] > 0 \/ Len(channel[k]) < BufferLen

ServeSendDrop ==
    /\ Running
    /\ sPc = "send"
    /\ sPc' = "range"
    /\ sCur' = 0
    /\ \/ /\ ctxDone[sCur]
          /\ Delete(sCur)
          /\ UNCHANGED channel
       \/ /\ SendReady(sCur)
          /\ ChanSend(sCur, sUpdate)
          /\ UNCHANGED <<store, closes>>
       \/ /\ ~SendReady(sCur)
          /\ UNCHANGED <<store, closes, channel, panicked>>
    /\ UNCHANGED <<curKey, handlers, ctxDone, regPending, regErr, nServed,
                   sUpdate, sVisited, sTodo, lastRecv, received, script>>

ServeSendAgain ==
    /\ Running
    /\ sPc = "send"
    /\ \/ /\ ctxDone[sCur]
          /\ Delete(sCur)
          /\ sPc' = "range"
          /\ sCur' = 0
          /\ UNCHANGED channel
       \/ /\ SendReady(sCur)
          /\ ChanSend(sCur, sUpdate)
          /\ UNCHANGED <<store, closes, sPc, sCur>>
    /\ UNCHANGED <<curKey, handlers, ctxDone, regPending, regErr, nServed,
                   sUpdate, sVisited, sTodo, lastRecv, received, script>>

\* The second select of the Range callback: it blocks until the context is
\* done (delete) or the send is ready; when both are, either may be taken.
ServeSend ==
    /\ Running
    /\ sPc = "send"
    /\ sPc' = "range"
    /\ sCur' = 0
    /\ \/ /\ ctxDone[sCur]
          /\ Delete(sCur)
          /\ UNCHANGED channel
       \/ /\ SendReady(sCur)
          /\ ChanSend(sCur, sUpdate)
          /\ UNCHANGED <<store, closes>>
    /\ UNCHANGED <<curKey, handlers, ctxDone, regPending, regErr, nServed,
                   sUpdate, sVisited, sTodo, lastRecv, received, script>>

\* Range returns once it has called back for every key it had to, and with
\* it Serve.
ServeEnd ==
    /\ Running
    /\ sPc = "range"
    /\ sTodo \subseteq sVisited
    /\ sPc' = "idle"
    /\ sUpdate' = NoUpdate
    /\ sVisited' = {}
    /\ sTodo' = {}
    /\ UNCHANGED <<curKey, handlers, ctxDone, channel, closes, store,
                   regPending, regErr, nServed, sCur, lastRecv, received,
                   panicked, script>>

\* ------------------------------------------------------------------ free runs
\* Any task registers a subscription.
EnvRegister ==
    /\ curKey < MaxSubs
    /\ \E g \in Groups : RegisterBegin(g)
    /\ UNCHANGED script

\* The single serving task calls Serve with the next update (update ids are
\* handed out in increasing order).
EnvServe ==
    /\ nServed < MaxServe
    /\ \E p \in Payloads : ServeBegin(p)
    /\ UNCHANGED script

MuxNext ==
    \/ EnvRegister /\ UNCHANGED nonMuxVars
    \/ \E k \in Keys : RegisterStore(k) /\ UNCHANGED nonMuxVars
    \/ \E k \in Keys : Cancel(k) /\ UNCHANGED nonMuxVars
    \/ \E k \in Keys : Receive(k) /\ UNCHANGED nonMuxVars
    \/ EnvServe /\ UNCHANGED nonMuxVars
    \/ \E k \in Keys : ServeVisit(k) /\ UNCHANGED nonMuxVars
    \/ ServeSend /\ UNCHANGED nonMuxVars
    \/ ServeEnd /\ UNCHANGED nonMuxVars

\* ------------------------------------------------------------------ retry
\* Length of the scripts of op.
MaxCalls == 3

\* An error is the sequence of its layers, outermost first: wrappers, then at
\* most one leaf (an errors.New value or a gRPC status). nil is <<>>. Two
\* errors are the same error iff the sequences are equal.
NilErr == <<>>

\* errors.New
Plain(name) == <<name>>

\* fmt.Errorf("...: %w", err)
Errorf(e) == <<"fmt">> \o e

\* retry.go:33-41: Recoverable() is recoverError{nil}, Unrecoverable(err) is
\* recoverError{err}.
Recoverable1 == <<"recoverError">>

Unrecoverable1(e) == <<"recoverError">> \o e

\* retry.go:136-144: Recoverable(err) is recoverError{err, true},
\* Unrecoverable(err) is recoverError{err, false}.
Recoverable2(e) == <<"recoverable">> \o e

Unrecoverable2(e) == <<"unrecoverable">> \o e

Unrecoverable(ver, e) == IF ver = 1 THEN Unrecoverable1(e) ELSE Unrecoverable2(e)

RecoverTags == {"recoverError", "recoverable", "unrecoverable"}

\* errors.As(err, &re): the position of the outermost recoverError of the
\* chain, 0 when there is none.
ErrorsAs(err) ==
    LET at == {i \in 1..Len(err) : err[i] \in RecoverTags}
    IN  IF at = {} THEN 0 ELSE CHOOSE i \in at : \A j \in at : i <= j

\* recoverError.Unwrap of the error ErrorsAs found.
Wrapped(err) == SubSeq(err, ErrorsAs(err) + 1, Len(err))

RecoverStopsInverted(ver, err) ==
    /\ ErrorsAs(err) > 0
    /\ IF ver = 1 THEN Wrapped(err) = NilErr
       ELSE err[ErrorsAs(err)] = "recoverable"

\* The test that ends the retries of a non-nil error:
\*   errors.As(err, &re) && re.wrapped != nil        (retry.go:54)
\*   errors.As(err, &re) && !re.recoverable          (retry.go:157)
RecoverStops(ver, err) ==
    /\ ErrorsAs(err) > 0
    /\ IF ver = 1 THEN Wrapped(err) # NilErr
       ELSE err[ErrorsAs(err)] = "unrecoverable"

\* The transformers the model passes: "fmt" wraps a non-nil error,
\* "unrecoverable" marks every non-nil error unrecoverable.
Transform(ver, t, e) ==
    IF e = NilErr THEN NilErr
    ELSE IF t = "fmt" THEN Errorf(e)
    ELSE Unrecoverable(ver, e)

\* for _, t := range et { err = t(err) }
RECURSIVE ApplyAll(_, _, _)
ApplyAll(ver, et, e) ==
    IF et = <<>> THEN e
    ELSE ApplyAll(ver, Tail(et), Transform(ver, Head(et), e))

DefaultBackoffMinDelay == 50
DefaultBackoffMaxDelay == 600000
DefaultBackoffFactor == 2
DefaultStaticDelay == 1000

\* What one invocation of op may return.
OpErrors(ver) ==
    { NilErr, Plain("E1"), Plain("E2"),
      Unrecoverable(ver, Plain("E1")),
      Unrecoverable(ver, Errorf(Plain("E2"))),
      Errorf(Unrecoverable(ver, Plain("E2"))),
      Unrecoverable(ver, NilErr),
      IF ver = 1 THEN Recoverable1 ELSE Recoverable2(Plain("E1")) }

OpScripts(ver) ==
    UNION { [1..n -> OpErrors(ver)] : n \in 1..MaxCalls }

Transformers == { <<>>, <<"fmt">>, <<"unrecoverable">>, <<"fmt", "unrecoverable">> }

\* op's result on its i-th invocation; past the script it succeeds.
OpResult(i) == IF i <= Len(rOp) THEN rOp[i] ELSE NilErr

RetryOff ==
    /\ rVer = 0
    /\ rStrategy = "none"
    /\ rOp = <<>>
    /\ rEt = <<>>
    /\ rPc = "off"
    /\ rCalls = 0
    /\ rRet = NilErr
    /\ rNext = 0
    /\ rSlept = 0

\* Backoff(f, et...) or Static(f, et...) has just called Recover.
RetryInit ==
    /\ rVer \in {1, 2}
    /\ rStrategy \in {"Backoff", "Static"}
    /\ rOp \in OpScripts(rVer)
    /\ rEt \in Transformers
    /\ rPc = "call"
    /\ rCalls = 0
    /\ rRet = NilErr
    /\ rNext = DefaultBackoffMinDelay
    /\ rSlept = 0

RecoverCallLimited ==
    /\ rPc = "call"
    /\ rCalls' = rCalls + 1
    /\ LET err == ApplyAll(rVer, rEt, OpResult(rCalls + 1))
       IN  IF err = NilErr
           THEN rPc' = "done" /\ rRet' = NilErr
           ELSE IF RecoverStops(rVer, err)
                THEN rPc' = "done" /\ rRet' = Wrapped(err)
                ELSE IF rCalls + 1 >= 2
                     THEN rPc' = "done" /\ rRet' = err
                     ELSE rPc' = "sleep" /\ UNCHANGED rRet
    /\ UNCHANGED <<rVer, rStrategy, rOp, rEt, rNext, rSlept, nonRetryVars>>

\* One pass of Recover's loop up to the sleep: invoke f, transform its error,
\* return on nil and on an unrecoverable error.
RecoverCall ==
    /\ rPc = "call"
    /\ rCalls' = rCalls + 1
    /\ LET err == ApplyAll(rVer, rEt, OpResult(rCalls + 1))
       IN  IF err = NilErr
           THEN rPc' = "done" /\ rRet' = NilErr
           ELSE IF RecoverStops(rVer, err)
                THEN rPc' = "done" /\ rRet' = Wrapped(err)
                ELSE rPc' = "sleep" /\ UNCHANGED rRet
    /\ UNCHANGED <<rVer, rStrategy, rOp, rEt, rNext, rSlept, nonRetryVars>>

BackoffNextUncapped(next) == next * DefaultBackoffFactor

\* The delay scheduler of Backoff: delay, next = next, next*factor, capped.
BackoffNext(next) ==
    IF next * DefaultBackoffFactor > DefaultBackoffMaxDelay
    THEN DefaultBackoffMaxDelay
    ELSE next * DefaultBackoffFactor

\* time.Sleep(s())
RecoverSleep ==
    /\ rPc = "sleep"
    /\ rPc' = "call"
    /\ IF rStrategy = "Backoff"
       THEN rSlept' = rNext /\ rNext' = BackoffNext(rNext)
       ELSE rSlept' = DefaultStaticDelay /\ UNCHANGED rNext
    /\ UNCHANGED <<rVer, rStrategy, rOp, rEt, rCalls, rRet, nonRetryVars>>

RetryNext == RecoverCall \/ RecoverSleep

\* Retries of one call when only the schedule is of interest.
MaxRetries == 16

\* Backoff(f) or Static(f) with an f that fails recoverably n times.
ScheduleInit ==
    /\ rVer \in {1, 2}
    /\ rStrategy \in {"Backoff", "Static"}
    /\ rOp \in { [i \in 1..n |-> Plain("E1")] : n \in 1..MaxRetries }
    /\ rEt = <<>>
    /\ rPc = "call"
    /\ rCalls = 0
    /\ rRet = NilErr
    /\ rNext = DefaultBackoffMinDelay
    /\ rSlept = 0

\* ------------------------------------------------------------------ gRPC registrar
\* RegisterHandler RPCs the mock client answers while the context is live.
MaxRpc == 3
\* Recv calls the mock streams answer while the context is live.
MaxRecv == 3

\* gRPC status errors and the error of json.Unmarshal.
Status(code) == <<code>>

JSONError == <<"json">>

\* retry.IsGRPCUnavailable, on an error that is itself a status error or none.
IsGRPCUnavailable(e) == e = Status("Unavailable")

\* retry.IsGRPCCanceled
IsGRPCCanceled(e) == e = Status("Canceled") \/ e = Status("DeadlineExceeded")

\* errors.Unwrap: the error under a wrapper, nil for a leaf and for nil.
Unwrap(e) ==
    IF e # NilErr /\ Head(e) \in RecoverTags \cup {"fmt", "url.Error"}
    THEN Tail(e)
    ELSE NilErr

\* What RegisterHandler and Recv fail with.
RpcErrors ==
    { Status("Unavailable"), Status("Canceled"), Status("DeadlineExceeded"),
      Status("Unauthenticated") }

NoPending == [kind |-> "none", id |-> 0, err |-> NilErr]

\* The consumer of the channel is a test's loop (pc "none") or
\* Client.RegisterAndRun, which returns ret.
NoRun == [pc |-> "none", ret |-> NilErr, zero |-> FALSE]

RunLoop == [pc |-> "running", ret |-> NilErr, zero |-> FALSE]

Returned(err) == [gRun EXCEPT !.pc = "returned", !.ret = err]

\* A call of the mock client or stream and what it returned.
Call(op, res, id) == [op |-> op, res |-> res, id |-> id]

GrpcInit ==
    /\ gPc = "off"
    /\ gRequest = <<>>
    /\ gRegErr = "none"
    /\ gGoroutines = 0
    /\ gRpcCalls = 0
    /\ gRecvs = 0
    /\ gCtxDone = FALSE
    /\ gPending = NoPending
    /\ gOut = <<>>
    /\ gConsuming = TRUE
    /\ gNext = 0
    /\ gSlept = 0
    /\ gLog = <<>>
    /\ gRun = NoRun

\* gRPCRegistrar.Register: reject an empty group, else build the request,
\* make the channel and start the goroutine, which enters retry.Static, then
\* tryRegister, then retry.Backoff. The caller is a test or RegisterAndRun.
GRPCRegister(g) ==
    /\ gPc = "off"
    /\ IF GroupLen(g) < 1
       THEN /\ gRegErr' = "cannot register with zero matchers"
            /\ gPc' = "rejected"
            /\ UNCHANGED <<gRequest, gGoroutines, gNext, gRun>>
       ELSE /\ gRegErr' = "nil"
            /\ gRequest' = g
            /\ gGoroutines' = gGoroutines + 1
            /\ gPc' = "dial"
            /\ gNext' = DefaultBackoffMinDelay
            /\ gRun' \in {NoRun, RunLoop}
    /\ UNCHANGED <<gRpcCalls, gRecvs, gCtxDone, gPending, gOut, gConsuming,
                   gSlept, gLog, nonGrpcVars>>

AfterTryRegisterNoReconnect(err) ==
    LET uw == Unwrap(err)
    IN  IF uw = NilErr \/ IsGRPCCanceled(uw)
        THEN gPc' = "closed" /\ gPending' = NoPending
        ELSE gPc' = "sendErr"
             /\ gPending' = [kind |-> "error", id |-> 0, err |-> err]

AfterTryRegisterCanceledFatal(err) ==
    LET uw == Unwrap(err)
    IN  IF uw = NilErr
        THEN gPc' = "closed" /\ gPending' = NoPending
        ELSE IF IsGRPCUnavailable(uw)
             THEN gPc' = "staticSleep" /\ gPending' = NoPending
             ELSE gPc' = "sendErr"
                  /\ gPending' = [kind |-> "error", id |-> 0, err |-> err]

\* What the function given to retry.Static does with the error tryRegister
\* returned, and what the goroutine does once Static returns: nil or a
\* Canceled/DeadlineExceeded cause end the goroutine, which closes the channel;
\* an Unavailable cause is retried after the static delay; any other error is
\* sent on the channel before it is closed.
AfterTryRegister(err) ==
    LET uw == Unwrap(err)
    IN  IF uw = NilErr \/ IsGRPCCanceled(uw)
        THEN gPc' = "closed" /\ gPending' = NoPending
        ELSE IF IsGRPCUnavailable(uw)
             THEN gPc' = "staticSleep" /\ gPending' = NoPending
             ELSE gPc' = "sendErr"
                  /\ gPending' = [kind |-> "error", id |-> 0, err |-> err]

\* What the RegisterHandler RPC returns: nil ("OK") or a status error. A
\* call made with a done context fails with the status of the context's
\* error, as a gRPC client's does; otherwise the server answers as it likes.
DialResults ==
    IF gCtxDone
    THEN {"Canceled", "DeadlineExceeded"}
    ELSE {"OK"} \cup { e[1] : e \in RpcErrors }

GDialNoRetry ==
    /\ gPc = "dial"
    /\ gRpcCalls < MaxRpc \/ gCtxDone
    /\ gRpcCalls' = gRpcCalls + 1
    /\ \E res \in DialResults :
          /\ gLog' = Append(gLog, Call("dial", res, 0))
          /\ IF res = "OK"
             THEN gPc' = "recv" /\ UNCHANGED gPending
             ELSE gPc' = "sendErr"
                  /\ gPending' = [kind |-> "error", id |-> 0,
                                  err |-> Errorf(Status(res))]
    /\ UNCHANGED <<gRequest, gRegErr, gGoroutines, gRecvs, gCtxDone, gOut,
                   gConsuming, gNext, gSlept, gRun, nonGrpcVars>>

\* One pass of the Backoff loop of tryRegister: the RegisterHandler RPC. An
\* Unavailable status is answered with Recoverable(), any other error with
\* Unrecoverable(err), which ends Backoff and tryRegister.
GDial ==
    /\ gPc = "dial"
    /\ gRpcCalls < MaxRpc \/ gCtxDone
    /\ gRpcCalls' = gRpcCalls + 1
    /\ \E res \in DialResults :
          /\ gLog' = Append(gLog, Call("dial", res, 0))
          /\ IF res = "OK"
             THEN gPc' = "recv" /\ UNCHANGED gPending
             ELSE IF IsGRPCUnavailable(Status(res))
                  THEN gPc' = "dialSleep" /\ UNCHANGED gPending
                  ELSE AfterTryRegister(Errorf(Status(res)))
    /\ UNCHANGED <<gRequest, gRegErr, gGoroutines, gRecvs, gCtxDone, gOut,
                   gConsuming, gNext, gSlept, gRun, nonGrpcVars>>

\* The sleep of Backoff after an Unavailable RegisterHandler.
GDialSleep ==
    /\ gPc = "dialSleep"
    /\ gPc' = "dial"
    /\ gSlept' = gNext
    /\ gNext' = BackoffNext(gNext)
    /\ UNCHANGED <<gRequest, gRegErr, gGoroutines, gRpcCalls, gRecvs,
                   gCtxDone, gPending, gOut, gConsuming, gLog, gRun,
                   nonGrpcVars>>

\* What stream.Recv returns: an update whose JSON parses ("update"), one
\* whose JSON does not ("json"), or a status error. The stream holds up to
\* MaxRecv answers; past them Recv blocks until the context is done and then
\* fails with Canceled.
RecvResults ==
    IF gRecvs < MaxRecv
    THEN {"update", "json"} \cup { e[1] : e \in RpcErrors }
    ELSE {"Canceled"}

GRecvSkipsBadJSON ==
    /\ gPc = "recv"
    /\ gRecvs < MaxRecv \/ gCtxDone
    /\ gRecvs' = gRecvs + 1
    /\ \E res \in RecvResults :
          /\ gLog' = Append(gLog, Call("recv", res,
                                       IF res = "update" THEN gRecvs + 1 ELSE 0))
          /\ IF res = "update"
             THEN /\ gPc' = "send"
                  /\ gPending' = [kind |-> "update", id |-> gRecvs + 1,
                                  err |-> NilErr]
             ELSE IF res = "json"
                  THEN gPc' = "recv" /\ UNCHANGED gPending
                  ELSE AfterTryRegister(Errorf(Status(res)))
    /\ UNCHANGED <<gRequest, gRegErr, gGoroutines, gRpcCalls, gCtxDone, gOut,
                   gConsuming, gNext, gSlept, gRun, nonGrpcVars>>

\* stream.Recv and json.Unmarshal in the loop of tryRegister.
GRecv ==
    /\ gPc = "recv"
    /\ gRecvs < MaxRecv \/ gCtxDone
    /\ gRecvs' = gRecvs + 1
    /\ \E res \in RecvResults :
          /\ gLog' = Append(gLog, Call("recv", res,
                                       IF res = "update" THEN gRecvs + 1 ELSE 0))
          /\ IF res = "update"
             THEN /\ gPc' = "send"
                  /\ gPending' = [kind |-> "update", id |-> gRecvs + 1,
                                  err |-> NilErr]
             ELSE IF res = "json"
                  THEN AfterTryRegister(Errorf(JSONError))
                  ELSE AfterTryRegister(Errorf(Status(res)))
    /\ UNCHANGED <<gRequest, gRegErr, gGoroutines, gRpcCalls, gCtxDone, gOut,
                   gConsuming, gNext, gSlept, gRun, nonGrpcVars>>

\* The select of tryRegister: the consumer takes the update from the
\* unbuffered channel, or the context is done and tryRegister returns nil.
GSend ==
    /\ gPc = "send"
    /\ \/ /\ gConsuming
          /\ gOut' = Append(gOut, gPending)
          /\ gPc' = "recv"
          /\ gPending' = NoPending
       \/ /\ gCtxDone
          /\ AfterTryRegister(NilErr)
          /\ UNCHANGED gOut
    /\ UNCHANGED <<gRequest, gRegErr, gGoroutines, gRpcCalls, gRecvs,
                   gCtxDone, gConsuming, gNext, gSlept, gLog, gRun,
                   nonGrpcVars>>

\* The sleep of Static; the next tryRegister starts a new Backoff.
GStaticSleep ==
    /\ gPc = "staticSleep"
    /\ gPc' = "dial"
    /\ gSlept' = DefaultStaticDelay
    /\ gNext' = DefaultBackoffMinDelay
    /\ UNCHANGED <<gRequest, gRegErr, gGoroutines, gRpcCalls, gRecvs,
                   gCtxDone, gPending, gOut, gConsuming, gLog, gRun,
                   nonGrpcVars>>

\* RegisterAndRun on an update with Error set: it wraps err, the variable
\* that holds what Register returned (nil here), not update.Error.
RunError(update, registerErr) == Errorf(registerErr)

\* updateCh <- models.PossibleUpdate{Error: err}, then the deferred close.
\* RegisterAndRun returns when it receives the item.
GSendErr ==
    /\ gPc = "sendErr"
    /\ gConsuming
    /\ gOut' = Append(gOut, gPending)
    /\ gPending' = NoPending
    /\ gPc' = "closed"
    /\ IF gRun.pc = "running"
       THEN gRun' = Returned(RunError(gPending, NilErr)) /\ gConsuming' = FALSE
       ELSE UNCHANGED <<gRun, gConsuming>>
    /\ UNCHANGED <<gRequest, gRegErr, gGoroutines, gRpcCalls, gRecvs,
                   gCtxDone, gNext, gSlept, gLog, nonGrpcVars>>

\* The caller cancels the context it passed to Register.
GCancel ==
    /\ gPc \notin {"off", "rejected"}
    /\ ~gCtxDone
    /\ gCtxDone' = TRUE
    /\ UNCHANGED <<gPc, gRequest, gRegErr, gGoroutines, gRpcCalls, gRecvs,
                   gPending, gOut, gConsuming, gNext, gSlept, gLog, gRun,
                   nonGrpcVars>>

\* A test's consumer stops receiving from the channel.
GConsumerStop ==
    /\ gPc \notin {"off", "rejected"}
    /\ gRun.pc = "none"
    /\ gConsuming
    /\ gConsuming' = FALSE
    /\ UNCHANGED <<gPc, gRequest, gRegErr, gGoroutines, gRpcCalls, gRecvs,
                   gCtxDone, gPending, gOut, gNext, gSlept, gLog, gRun,
                   nonGrpcVars>>

\* The select of RegisterAndRun takes <-ctx.Done() and returns nil.
GRunDone ==
    /\ gRun.pc = "running"
    /\ gCtxDone
    /\ gRun' = Returned(NilErr)
    /\ gConsuming' = FALSE
    /\ UNCHANGED <<gPc, gRequest, gRegErr, gGoroutines, gRpcCalls, gRecvs,
                   gCtxDone, gPending, gOut, gNext, gSlept, gLog, nonGrpcVars>>

\* The select of RegisterAndRun receives from the closed channel: a zero
\* PossibleUpdate, which it hands to the handler, and loops.
GRunZero ==
    /\ gRun.pc = "running"
    /\ gPc = "closed"
    /\ ~gRun.zero
    /\ gRun' = [gRun EXCEPT !.zero = TRUE]
    /\ UNCHANGED <<gPc, gRequest, gRegErr, gGoroutines, gRpcCalls, gRecvs,
                   gCtxDone, gPending, gOut, gConsuming, gNext, gSlept, gLog,
                   nonGrpcVars>>

\* The steps of the goroutine Register started.
GoroutineNext ==
    GDial \/ GDialSleep \/ GRecv \/ GSend \/ GStaticSleep \/ GSendErr

\* The registrar, its mock client and its consumer.
ClientNext ==
    \/ \E g \in Groups \cup EmptyGroups : GRPCRegister(g)
    \/ GoroutineNext
    \/ GCancel
    \/ GConsumerStop
    \/ GRunDone
    \/ GRunZero

\* Register on the multiplexer with any group, the rejected ones included.
EnvRegisterAny ==
    /\ curKey < MaxSubs
    /\ \E g \in Groups \cup EmptyGroups : RegisterBegin(g)
    /\ UNCHANGED script

RegistrarNext ==
    \/ EnvRegisterAny /\ UNCHANGED nonMuxVars
    \/ \E k \in Keys : RegisterStore(k) /\ UNCHANGED nonMuxVars
    \/ \E k \in Keys : Cancel(k) /\ UNCHANGED nonMuxVars
    \/ ClientNext

\* ------------------------------------------------------------------ streams
\* runtime.NumCPU(): the number of mapping goroutines.
NumCPU == 2
\* The capacity given to MappedStream.
Capacity == 1
\* LongPollOptions.Limit: the capacity of the raw stream.
Limit == 1
\* Items the producer of a test puts on the input stream.
MaxItems == 5

\* Maybe[T]
Maybe(val, err) == [val |-> val, err |-> err]

\* A RawUpdate: the JSON text of the update with this update_id, or bytes
\* whose decoding into an Update fails after this update_id was stored
\* (0: it fails before any field is stored).
RawUpdate(id, valid) == [id |-> id, valid |-> valid]

ZeroRaw == RawUpdate(0, FALSE)

\* tgbotapi.Update
TgUpdate(id) == [UpdateID |-> id]

ZeroUpdate == TgUpdate(0)

ConnError == Plain("connection error")

\* The mapper of AsTgBotAPI: jsoniter.Unmarshal([]byte(u), &tu).
\* tu and err are named results: what was decoded before the failure is
\* returned with the error.
Mapper(u) ==
    IF u.valid THEN Maybe(TgUpdate(u.id), NilErr)
    ELSE Maybe(TgUpdate(u.id), Plain("jsoniter"))

MapResultAlwaysMaps(in) == Mapper(in.val)

\* What mapF makes of a job's input.
MapResult(in) ==
    IF in.err # NilErr THEN Maybe(ZeroUpdate, in.err) ELSE Mapper(in.val)

\* The items a test producer can send as its i-th: an update, bytes that
\* do not decode (after the update_id was stored for odd i, before any
\* field for even i), or an error.
TestItems(i) ==
    { Maybe(RawUpdate(i, TRUE), NilErr),
      Maybe(RawUpdate(IF i % 2 = 1 THEN i ELSE 0, FALSE), NilErr),
      Maybe(ZeroRaw, ConnError) }

Workers == 1..NumCPU

NoJob == [ch |-> 0, res |-> Maybe(ZeroUpdate, NilErr)]

NoResp == [kind |-> "none", n |-> 0]

\* The streams before (off) and right after MappedStream was called on the
\* input stream and started its goroutines.
MappedState(on) ==
    /\ raw = <<>>
    /\ rawClosed = FALSE
    /\ fed = <<>>
    /\ dPc = IF on THEN "read" ELSE "off"
    /\ dItem = Maybe(ZeroRaw, NilErr)
    /\ dCount = 0
    /\ jobs = <<>>
    /\ outOrder = <<>>
    /\ wPc = [w \in Workers |-> IF on THEN "idle" ELSE "off"]
    /\ wJob = [w \in Workers |-> NoJob]
    /\ oPc = IF on THEN "next" ELSE "off"
    /\ oCh = 0
    /\ oVal = Maybe(ZeroUpdate, NilErr)
    /\ out = <<>>
    /\ outLog = <<>>
    /\ cPc = IF on THEN "reading" ELSE "off"
    /\ mapperCalls = {}

MappedInit == MappedState(TRUE)

LongPollOff ==
    /\ lpPc = "off"
    /\ lpCtxDone = FALSE
    /\ lpResp = NoResp
    /\ lpLeft = <<>>
    /\ lpPolls = 0
    /\ lpErr = NilErr

\* No stream exists.
StreamOff == LongPollOff /\ MappedState(FALSE)

\* The parallelizing goroutine has returned: jobs and outOrder are closed.
JobsClosed == dPc = "done"

\* The synchronizing goroutine has returned: the output stream is closed.
OutClosed == oPc = "done"

\* v, ok := <-in
DRead ==
    /\ dPc = "read"
    /\ IF raw # <<>>
       THEN /\ dItem' = Head(raw)
            /\ raw' = Tail(raw)
            /\ dCount' = dCount + 1
            /\ dPc' = "job"
       ELSE /\ rawClosed
            /\ dPc' = "done"
            /\ UNCHANGED <<dItem, raw, dCount>>
    /\ UNCHANGED <<lpVars, rawClosed, fed, jobs, outOrder, wPc, wJob, oPc,
                   oCh, oVal, out, mapperCalls, outLog, cPc, nonStreamVars>>

\* jobs <- mapJob{in: v, out: ch}
DJob ==
    /\ dPc = "job"
    /\ Len(jobs) < NumCPU
    /\ jobs' = Append(jobs, [in |-> dItem, ch |-> dCount])
    /\ dPc' = "order"
    /\ UNCHANGED <<lpVars, raw, rawClosed, fed, dItem, dCount, outOrder, wPc,
                   wJob, oPc, oCh, oVal, out, mapperCalls, outLog, cPc,
                   nonStreamVars>>

\* outOrder <- ch
DOrder ==
    /\ dPc = "order"
    /\ Len(outOrder) < NumCPU
    /\ outOrder' = Append(outOrder, dCount)
    /\ dPc' = "read"
    /\ UNCHANGED <<lpVars, raw, rawClosed, fed, dItem, dCount, jobs, wPc,
                   wJob, oPc, oCh, oVal, out, mapperCalls, outLog, cPc,
                   nonStreamVars>>

\* One pass of mapF: take a job, map its input unless it carries an error.
\* The worker is then at job.out <- result. With jobs closed and empty it
\* returns.
WTake(w) ==
    /\ wPc[w] = "idle"
    /\ IF jobs # <<>>
       THEN LET job == Head(jobs)
            IN  /\ jobs' = Tail(jobs)
                /\ wJob' = [wJob EXCEPT
                              ![w] = [ch |-> job.ch, res |-> MapResult(job.in)]]
                /\ wPc' = [wPc EXCEPT ![w] = "send"]
                /\ mapperCalls' =
                      IF job.in.err = NilErr
                      THEN mapperCalls \cup {<<job.ch, job.in.val>>}
                      ELSE mapperCalls
       ELSE /\ JobsClosed
            /\ wPc' = [wPc EXCEPT ![w] = "done"]
            /\ UNCHANGED <<jobs, wJob, mapperCalls>>
    /\ UNCHANGED <<lpVars, raw, rawClosed, fed, dPc, dItem, dCount, outOrder,
                   oPc, oCh, oVal, out, outLog, cPc, nonStreamVars>>

OTakeClosesWhenEmpty ==
    /\ oPc = "next"
    /\ IF outOrder # <<>>
       THEN /\ oCh' = Head(outOrder)
            /\ outOrder' = Tail(outOrder)
            /\ oPc' = "recv"
       ELSE /\ oPc' = "done"
            /\ UNCHANGED <<oCh, outOrder>>
    /\ UNCHANGED <<lpVars, raw, rawClosed, fed, dPc, dItem, dCount, jobs, wPc,
                   wJob, oVal, out, mapperCalls, outLog, cPc, nonStreamVars>>

\* for in := range outOrder: take the next completion channel, or return and
\* close the output stream when outOrder is closed and empty.
OTake ==
    /\ oPc = "next"
    /\ IF outOrder # <<>>
       THEN /\ oCh' = Head(outOrder)
            /\ outOrder' = Tail(outOrder)
            /\ oPc' = "recv"
       ELSE /\ JobsClosed
            /\ oPc' = "done"
            /\ UNCHANGED <<oCh, outOrder>>
    /\ UNCHANGED <<lpVars, raw, rawClosed, fed, dPc, dItem, dCount, jobs, wPc,
                   wJob, oVal, out, mapperCalls, outLog, cPc, nonStreamVars>>

HandoffAny(w) ==
    /\ wPc[w] = "send"
    /\ oPc = "recv"
    /\ oVal' = wJob[w].res
    /\ oPc' = "send"
    /\ wPc' = [wPc EXCEPT ![w] = "idle"]
    /\ wJob' = [wJob EXCEPT ![w] = NoJob]
    /\ UNCHANGED <<lpVars, raw, rawClosed, fed, dPc, dItem, dCount, jobs,
                   outOrder, oCh, out, mapperCalls, outLog, cPc,
                   nonStreamVars>>

\* job.out <- result meets <-in on the unbuffered completion channel.
Handoff(w) ==
    /\ wPc[w] = "send"
    /\ oPc = "recv"
    /\ wJob[w].ch = oCh
    /\ oVal' = wJob[w].res
    /\ oPc' = "send"
    /\ wPc' = [wPc EXCEPT ![w] = "idle"]
    /\ wJob' = [wJob EXCEPT ![w] = NoJob]
    /\ UNCHANGED <<lpVars, raw, rawClosed, fed, dPc, dItem, dCount, jobs,
                   outOrder, oCh, out, mapperCalls, outLog, cPc,
                   nonStreamVars>>

\* out <- (the received result)
OSend ==
    /\ oPc = "send"
    /\ Len(out) < Capacity
    /\ out' = Append(out, oVal)
    /\ oPc' = "next"
    /\ oVal' = Maybe(ZeroUpdate, NilErr)
    /\ UNCHANGED <<lpVars, raw, rawClosed, fed, dPc, dItem, dCount, jobs,
                   outOrder, wPc, wJob, oCh, mapperCalls, outLog, cPc,
                   nonStreamVars>>

\* The consumer reads the output stream: an item, or that it is closed.
\* Drain reads in the same way and drops the items.
CRead ==
    /\ cPc \in {"reading", "draining"}
    /\ IF out # <<>>
       THEN /\ out' = Tail(out)
            /\ outLog' = IF cPc = "reading" THEN Append(outLog, Head(out))
                         ELSE outLog
            /\ UNCHANGED cPc
       ELSE /\ OutClosed
            /\ cPc' = IF cPc = "reading" THEN "closed" ELSE "drained"
            /\ UNCHANGED <<out, outLog>>
    /\ UNCHANGED <<lpVars, raw, rawClosed, fed, msVarsButOut, nonStreamVars>>

\* The consumer stops reading before the stream is closed.
CStop ==
    /\ cPc = "reading"
    /\ cPc' = "stopped"
    /\ UNCHANGED <<lpVars, raw, rawClosed, fed, msVars, outLog,
                   nonStreamVars>>

\* stream.Drain()
CDrain ==
    /\ cPc = "stopped"
    /\ cPc' = "draining"
    /\ UNCHANGED <<lpVars, raw, rawClosed, fed, msVars, outLog,
                   nonStreamVars>>

\* The producer of a test: stream <- u
FeedSend ==
    /\ lpPc = "off"
    /\ ~rawClosed
    /\ Len(fed) < MaxItems
    /\ Len(raw) < Limit
    /\ \E item \in TestItems(Len(fed) + 1) :
          /\ raw' = Append(raw, item)
          /\ fed' = Append(fed, item)
    /\ UNCHANGED <<lpVars, rawClosed, msVars, outLog, cPc, nonStreamVars>>

\* The producer of a test: close(stream)
FeedClose ==
    /\ lpPc = "off"
    /\ ~rawClosed
    /\ rawClosed' = TRUE
    /\ UNCHANGED <<lpVars, raw, fed, msVars, outLog, cPc, nonStreamVars>>

MappedNext ==
    \/ DRead
    \/ DJob
    \/ DOrder
    \/ \E w \in Workers : WTake(w)
    \/ OTake
    \/ \E w \in Workers : Handoff(w)
    \/ OSend
    \/ CRead

StreamNext ==
    \/ FeedSend
    \/ FeedClose
    \/ MappedNext

\* ------------------------------------------------------------------ long poll
\* Polls answered with anything but a cancellation.
MaxPolls == 2
\* Updates in one getUpdates response.
MaxBatch == 2

\* *url.Error: what http.Client.Do fails with; it carries the request URL,
\* which holds the bot token.
UrlError(e) == <<"url.Error">> \o e

DeadlineExceeded == Plain("context deadline exceeded")

Canceled == Plain("context canceled")

\* errors.Is(err, target) for a target without layers.
ErrorsIs(err, target) == \E i \in 1..Len(err) : <<err[i]>> = target

\* What a poll can end with while the context is live: Client.Do fails
\* (timeout of the poll, or any other transport error), the status is not
\* 200, or there is a response whose body cannot be read, is not JSON, says
\* Ok=false, holds n updates, or holds an update without a usable update_id.
Resp(kind, n) == [kind |-> kind, n |-> n]

LiveOutcomes ==
    { Resp(k, 0) : k \in {"timeout", "network", "status", "readerr",
                          "garbage", "notok"} }
    \cup { Resp("ok", n) : n \in 0..MaxBatch }
    \cup { Resp("badid", 1) }

DoFailed(resp) == resp.kind \in {"timeout", "network", "canceled"}

\* The error of Client.Do.
DoError(resp) ==
    UrlError(IF resp.kind = "timeout" THEN DeadlineExceeded
             ELSE IF resp.kind = "canceled" THEN Canceled
             ELSE Plain("dial error"))

PollErrorKeepsURL(resp) ==
    IF DoFailed(resp) THEN Errorf(DoError(resp))
    ELSE IF resp.kind = "status" THEN Plain("bad response code")
    ELSE NilErr

\* The error poll returns: Client.Do's without its url.Error layer, or the
\* bad status; nil for a 200 response.
PollError(resp) ==
    IF DoFailed(resp) THEN Errorf(Unwrap(DoError(resp)))
    ELSE IF resp.kind = "status" THEN Plain("bad response code")
    ELSE NilErr

\* The error parseUpdates returns before it puts anything on the stream.
ParseError(resp) ==
    IF resp.kind = "readerr" THEN Errorf(Plain("unexpected EOF"))
    ELSE IF resp.kind = "garbage" THEN Errorf(Plain("invalid character"))
    ELSE IF resp.kind = "notok" THEN Plain("response.Ok is false")
    ELSE NilErr

\* Stream(ctx) has been called: the goroutine is about to poll.
LongPollInit ==
    /\ lpPc = "poll"
    /\ lpCtxDone = FALSE
    /\ lpResp = NoResp
    /\ lpLeft = <<>>
    /\ lpPolls = 0
    /\ lpErr = NilErr

\* poll: the request is sent. A request under a done context is answered at
\* once, so it is not counted against MaxPolls.
LPollStart ==
    /\ lpPc = "poll"
    /\ lpCtxDone \/ lpPolls < MaxPolls
    /\ lpPc' = "polling"
    /\ lpPolls' = IF lpCtxDone THEN lpPolls ELSE lpPolls + 1
    /\ UNCHANGED <<lpCtxDone, lpResp, lpLeft, lpErr, raw, rawClosed, fed,
                   msVars, outLog, cPc, nonStreamVars>>

\* poll returns. With the context done Client.Do fails with its error.
LPollReturn ==
    /\ lpPc = "polling"
    /\ lpPc' = "polled"
    /\ IF lpCtxDone THEN lpResp' = Resp("canceled", 0)
       ELSE lpResp' \in LiveOutcomes
    /\ UNCHANGED <<lpCtxDone, lpLeft, lpPolls, lpErr, raw, rawClosed, fed,
                   msVars, outLog, cPc, nonStreamVars>>

LHandleRepollsWhenDone ==
    /\ lpPc = "polled"
    /\ IF PollError(lpResp) # NilErr
       THEN IF lpCtxDone
            THEN lpPc' = "poll" /\ UNCHANGED <<lpErr, lpLeft, rawClosed>>
            ELSE IF ErrorsIs(PollError(lpResp), DeadlineExceeded)
                 THEN /\ lpPc' = "sendTimeout"
                      /\ lpErr' = Errorf(PollError(lpResp))
                      /\ UNCHANGED <<lpLeft, rawClosed>>
                 ELSE /\ lpPc' = "sendErr"
                      /\ lpErr' = PollError(lpResp)
                      /\ UNCHANGED <<lpLeft, rawClosed>>
       ELSE IF ParseError(lpResp) # NilErr
            THEN /\ lpPc' = "sendErr"
                 /\ lpErr' = ParseError(lpResp)
                 /\ UNCHANGED <<lpLeft, rawClosed>>
            ELSE /\ lpPc' = "emit"
                 /\ lpLeft' = [i \in 1..lpResp.n |-> lpResp.kind = "ok"]
                 /\ UNCHANGED <<lpErr, rawClosed>>
    /\ UNCHANGED <<lpCtxDone, lpResp, lpPolls, raw, fed, msVars, outLog, cPc,
                   nonStreamVars>>

\* Stream's loop after poll returned: on an error of poll return silently
\* if the context is done, else announce a timeout and poll again, else
\* send the error and return; on a response start parseUpdates, whose
\* errors are sent before returning.
LHandle ==
    /\ lpPc = "polled"
    /\ IF PollError(lpResp) # NilErr
       THEN IF lpCtxDone
            THEN /\ lpPc' = "done"
                 /\ rawClosed' = TRUE
                 /\ UNCHANGED <<lpErr, lpLeft>>
            ELSE IF ErrorsIs(PollError(lpResp), DeadlineExceeded)
                 THEN /\ lpPc' = "sendTimeout"
                      /\ lpErr' = Errorf(PollError(lpResp))
                      /\ UNCHANGED <<lpLeft, rawClosed>>
                 ELSE /\ lpPc' = "sendErr"
                      /\ lpErr' = PollError(lpResp)
                      /\ UNCHANGED <<lpLeft, rawClosed>>
       ELSE IF ParseError(lpResp) # NilErr
            THEN /\ lpPc' = "sendErr"
                 /\ lpErr' = ParseError(lpResp)
                 /\ UNCHANGED <<lpLeft, rawClosed>>
            ELSE /\ lpPc' = "emit"
                 /\ lpLeft' = [i \in 1..lpResp.n |-> lpResp.kind = "ok"]
                 /\ UNCHANGED <<lpErr, rawClosed>>
    /\ UNCHANGED <<lpCtxDone, lpResp, lpPolls, raw, fed, msVars, outLog, cPc,
                   nonStreamVars>>

\* parseUpdates, top of the loop over the updates: return nil if the context
\* is done (Stream then polls again), else go on to the send. After the last
\* update the offset is taken from its update_id, which can fail.
LEmitCheck ==
    /\ lpPc = "emit"
    /\ IF lpLeft # <<>>
       THEN /\ lpPc' = IF lpCtxDone THEN "poll" ELSE "emitSend"
            /\ lpLeft' = IF lpCtxDone THEN <<>> ELSE lpLeft
            /\ UNCHANGED lpErr
       ELSE IF lpResp.kind = "badid"
            THEN /\ lpPc' = "sendErr"
                 /\ lpErr' = Errorf(Plain("update_id"))
                 /\ UNCHANGED lpLeft
            ELSE /\ lpPc' = "poll"
                 /\ UNCHANGED <<lpErr, lpLeft>>
    /\ UNCHANGED <<lpCtxDone, lpResp, lpPolls, raw, rawClosed, fed, msVars,
                   outLog, cPc, nonStreamVars>>

\* What the streamer puts on the stream is logged in fed.
PutRaw(item) ==
    /\ Len(raw) < Limit
    /\ raw' = Append(raw, item)
    /\ fed' = Append(fed, item)

\* stream <- Maybe[RawUpdate]{Value: u}
LEmitSend ==
    /\ lpPc = "emitSend"
    /\ PutRaw(Maybe(RawUpdate(IF Head(lpLeft) THEN Len(fed) + 1 ELSE 0,
                           Head(lpLeft)), NilErr))
    /\ lpLeft' = Tail(lpLeft)
    /\ lpPc' = "emit"
    /\ UNCHANGED <<lpCtxDone, lpResp, lpPolls, lpErr, rawClosed, msVars,
                   outLog, cPc, nonStreamVars>>

LSendErrContinues ==
    /\ lpPc = "sendErr"
    /\ PutRaw(Maybe(ZeroRaw, lpErr))
    /\ lpPc' = "poll"
    /\ UNCHANGED <<lpCtxDone, lpResp, lpLeft, lpPolls, lpErr, rawClosed,
                   msVars, outLog, cPc, nonStreamVars>>

\* stream <- Maybe[RawUpdate]{Error: err}; return, which closes the stream.
LSendErr ==
    /\ lpPc = "sendErr"
    /\ PutRaw(Maybe(ZeroRaw, lpErr))
    /\ lpPc' = "done"
    /\ rawClosed' = TRUE
    /\ UNCHANGED <<lpCtxDone, lpResp, lpLeft, lpPolls, lpErr, msVars, outLog,
                   cPc, nonStreamVars>>

LSendTimeoutEndsStream ==
    /\ lpPc = "sendTimeout"
    /\ PutRaw(Maybe(ZeroRaw, lpErr))
    /\ lpPc' = "done"
    /\ rawClosed' = TRUE
    /\ UNCHANGED <<lpCtxDone, lpResp, lpLeft, lpPolls, lpErr, msVars, outLog,
                   cPc, nonStreamVars>>

\* stream <- the temporary timeout error; continue
LSendTimeout ==
    /\ lpPc = "sendTimeout"
    /\ PutRaw(Maybe(ZeroRaw, lpErr))
    /\ lpPc' = "poll"
    /\ UNCHANGED <<lpCtxDone, lpResp, lpLeft, lpPolls, lpErr, rawClosed,
                   msVars, outLog, cPc, nonStreamVars>>

\* cancel() of the context given to Stream.
LCancel ==
    /\ lpPc # "off"
    /\ ~lpCtxDone
    /\ lpCtxDone' = TRUE
    /\ UNCHANGED <<lpPc, lpResp, lpLeft, lpPolls, lpErr, raw, rawClosed, fed,
                   msVars, outLog, cPc, nonStreamVars>>

\* The goroutine of Stream.
LongPollNext ==
    \/ LPollStart
    \/ LPollReturn
    \/ LHandle
    \/ LEmitCheck
    \/ LEmitSend
    \/ LSendErr
    \/ LSendTimeout

PollNext ==
    \/ LongPollNext
    \/ MappedNext
    \/ LCancel
    \/ CStop
    \/ CDrain

\* ------------------------------------------------------------------ auth
\* Values a request can carry under one metadata key.
MaxValues == 2

\* services.Client
Client(name) == [Name |-> name]

\* The nil *Client.
NilClient == [nil |-> TRUE]

ErrInvalidToken == Plain("invalid authentication token provided")

\* The static token -> Client map of the provider.
Clients == [t1 |-> Client("alice"), t2 |-> Client("bob")]

Tokens == {"t1", "t2", "bad"}

\* AuthProvider.Authenticate of the static provider: the client stored
\* for the token, or nil and ErrInvalidToken.
Authenticate(token) ==
    IF token \in DOMAIN Clients
    THEN [client |-> Clients[token], err |-> NilErr]
    ELSE [client |-> NilClient, err |-> ErrInvalidToken]

\* JSON texts: an object with a Name member, an object without one, null,
\* and text that is not JSON.
JsonObject(name) == [kind |-> "object", name |-> name]

JsonEmptyObject == [kind |-> "empty", name |-> ""]

JsonNull == [kind |-> "null", name |-> ""]

JsonGarbage == [kind |-> "garbage", name |-> ""]

\* json.Marshal(client)
Marshal(client) == JsonObject(client.Name)

\* json.Unmarshal(text, &client) into a zero Client.
Unmarshal(text) ==
    IF text.kind = "object" THEN [client |-> Client(text.name), err |-> NilErr]
    ELSE IF text.kind \in {"empty", "null"}
         THEN [client |-> Client(""), err |-> NilErr]
    ELSE [client |-> Client(""), err |-> Plain("invalid character")]

\* metadata.MD restricted to the two keys, and whether the context has
\* incoming metadata at all.
MD(has, tok, cli) == [has |-> has, tok |-> tok, cli |-> cli]

NoMD == MD(FALSE, <<>>, <<>>)

SeqsUpTo(S, n) == UNION { [1..k -> S] : k \in 0..n }

\* What a caller can supply under authenticated_client.
Forged ==
    { JsonObject("alice"), JsonObject("admin"), JsonEmptyObject, JsonNull,
      JsonGarbage }

IncomingMDs ==
    { NoMD } \cup
    { MD(TRUE, tok, cli) : tok \in SeqsUpTo(Tokens, MaxValues),
                           cli \in SeqsUpTo(Forged, MaxValues) }

NoClient == [client |-> Client(""), err |-> NilErr]

AuthorizeNoClientCheck(md) ==
    IF ~md.has \/ Len(md.tok) # 1
    THEN [code |-> "Unauthenticated", md |-> NoMD]
    ELSE IF Authenticate(md.tok[1]).err # NilErr
         THEN [code |-> "Unauthenticated", md |-> NoMD]
    ELSE [code |-> "OK",
          md |-> MD(TRUE, md.tok,
                    md.cli \o <<Marshal(Authenticate(md.tok[1]).client)>>)]

\* GRPCServerInterceptor.authorize: the status code, and on OK the incoming
\* metadata of the context it returns.
Authorize(md) ==
    IF ~md.has \/ Len(md.tok) # 1
    THEN [code |-> "Unauthenticated", md |-> NoMD]
    ELSE IF Len(md.cli) # 0
         THEN [code |-> "Unauthenticated", md |-> NoMD]
    ELSE IF Authenticate(md.tok[1]).err # NilErr
         THEN [code |-> "Unauthenticated", md |-> NoMD]
    ELSE [code |-> "OK",
          md |-> MD(TRUE, md.tok,
                    md.cli \o <<Marshal(Authenticate(md.tok[1]).client)>>)]

\* ClientFromCtx: nil with an error, or a pointer to the client decoded.
ClientFromCtx(md) ==
    IF ~md.has \/ Len(md.cli) # 1
    THEN [client |-> NilClient, err |-> Plain("unauthenticated context")]
    ELSE IF Unmarshal(md.cli[1]).err # NilErr
         THEN [client |-> NilClient,
               err |-> Errorf(Unmarshal(md.cli[1]).err)]
    ELSE Unmarshal(md.cli[1])

AuthOff ==
    /\ aKind = "none"
    /\ aMd = NoMD
    /\ aPc = "off"
    /\ aRet = "none"
    /\ aCalls = 0
    /\ aCtx = NoMD
    /\ aGot = NoClient

\* A unary or streaming RPC has arrived with some metadata.
AuthInit ==
    /\ aKind \in {"unary", "stream"}
    /\ aMd \in IncomingMDs
    /\ aPc = "start"
    /\ aRet = "none"
    /\ aCalls = 0
    /\ aCtx = NoMD
    /\ aGot = NoClient

\* The interceptor returned by Unary() or Stream(): authorize, then return
\* its error or invoke the handler with the new context (for a stream: with
\* the stream wrapped so that Context() returns it).
Intercept ==
    /\ aPc = "start"
    /\ LET r == Authorize(aMd)
       IN  IF r.code # "OK"
           THEN /\ aPc' = "rejected"
                /\ aRet' = r.code
                /\ UNCHANGED <<aCalls, aCtx>>
           ELSE /\ aPc' = "handler"
                /\ aCalls' = aCalls + 1
                /\ aCtx' = r.md
                /\ UNCHANGED aRet
    /\ UNCHANGED <<aKind, aMd, aGot, nonAuthVars>>

\* The handler calls ClientFromCtx on its context (on stream.Context()).
HandlerRun ==
    /\ aPc = "handler"
    /\ aGot' = ClientFromCtx(aCtx)
    /\ aPc' = "done"
    /\ UNCHANGED <<aKind, aMd, aRet, aCalls, aCtx, nonAuthVars>>

\* ClientFromCtx is called on the context as it arrived, not on the
\* interceptor's.
RawCall ==
    /\ aPc = "start"
    /\ aGot' = ClientFromCtx(aMd)
    /\ aPc' = "raw"
    /\ UNCHANGED <<aKind, aMd, aRet, aCalls, aCtx, nonAuthVars>>

AuthNext == Intercept \/ HandlerRun \/ RawCall

\* ------------------------------------------------- static authenticator
MaxEdits == 1

TableKeys == {"goodtoken", "othertoken", ""}

TableNames == {"client1", ""}

AuthTokens == TableKeys \cup {"badtoken", "faketoken"}

\* map[string]Client: nil, or a map over some keys.
Table(nil, keys, f) == [nil |-> nil, keys |-> keys, at |-> f]

EmptyAt == [k \in TableKeys |-> Client("")]

NilTable == Table(TRUE, {}, EmptyAt)

\* Entries outside keys are kept at the zero Client, so that equal maps
\* are equal values.
Tables ==
    { NilTable } \cup
    { Table(FALSE, ks, [k \in TableKeys |-> IF k \in ks THEN Client(f[k])
                                                         ELSE Client("")]) :
        ks \in SUBSET TableKeys, f \in [TableKeys -> TableNames] }

\* The file holds two static implementations: staticAuthProvider, built by
\* NewStaticAuthProvider over map[string]*Client, and staticAuthenticator,
\* built by NewStaticAuthenticator over map[string]Client.
Constructors == {"NewStaticAuthProvider", "NewStaticAuthenticator"}

\* NewStaticAuthProvider: the provider holds the caller's map itself.
NewStaticAuthProvider(clients) == clients

\* NewStaticAuthenticator: a fresh map holding a copy of every entry.
NewStaticAuthenticator(clients) == Table(FALSE, clients.keys, clients.at)

\* staticAuthProvider.Authenticate
StaticProviderAuthenticate(clients, token) ==
    IF token \in clients.keys
    THEN [client |-> clients.at[token], err |-> NilErr]
    ELSE [client |-> NilClient, err |-> ErrInvalidToken]

StaticAuthenticateNoError(clients, token) ==
    IF token \in clients.keys
    THEN [client |-> clients.at[token], err |-> NilErr]
    ELSE [client |-> Client(""), err |-> NilErr]

\* staticAuthenticator.Authenticate
StaticAuthenticate(clients, token) ==
    IF token \in clients.keys
    THEN [client |-> clients.at[token], err |-> NilErr]
    ELSE [client |-> Client(""), err |-> ErrInvalidToken]

SaOff ==
    /\ saCtor = "NewStaticAuthenticator"
    /\ saCaller = NilTable
    /\ saGiven = NilTable
    /\ saAuth = NilTable
    /\ saPc = "off"
    /\ saToken = ""
    /\ saRes = NoClient
    /\ saEdits = 0

SaInit ==
    /\ saCtor \in Constructors
    /\ saCaller \in Tables
    /\ saGiven = NilTable
    /\ saAuth = NilTable
    /\ saPc = "new"
    /\ saToken = ""
    /\ saRes = NoClient
    /\ saEdits = 0

\* p := NewStaticAuthProvider(clients), or
\* p := NewStaticAuthenticator(clients)
SaNew ==
    /\ saPc = "new"
    /\ saAuth' = (IF saCtor = "NewStaticAuthProvider"
                  THEN NewStaticAuthProvider(saCaller)
                  ELSE NewStaticAuthenticator(saCaller))
    /\ saGiven' = saCaller
    /\ saPc' = "built"
    /\ UNCHANGED <<saCtor, saCaller, saToken, saRes, saEdits, nonSaVars>>

\* The caller stores into or deletes from its own map afterwards. The
\* provider's clients field is that same map; the authenticator's is not.
SaEdit ==
    /\ saPc \in {"built", "called"}
    /\ saEdits < MaxEdits
    /\ ~saCaller.nil
    /\ \E k \in TableKeys :
          \/ \E n \in TableNames :
                saCaller' = Table(FALSE, saCaller.keys \cup {k},
                                  [saCaller.at EXCEPT ![k] = Client(n)])
          \/ saCaller' = Table(FALSE, saCaller.keys \ {k},
                               [saCaller.at EXCEPT ![k] = Client("")])
    /\ saAuth' = (IF saCtor = "NewStaticAuthProvider" THEN saCaller'
                  ELSE saAuth)
    /\ saEdits' = saEdits + 1
    /\ UNCHANGED <<saCtor, saGiven, saPc, saToken, saRes, nonSaVars>>

\* got, err := p.Authenticate(token)
SaAuthenticate ==
    /\ saPc \in {"built", "called"}
    /\ \E token \in AuthTokens :
          /\ saToken' = token
          /\ saRes' = (IF saCtor = "NewStaticAuthProvider"
                       THEN StaticProviderAuthenticate(saAuth, token)
                       ELSE StaticAuthenticate(saAuth, token))
    /\ saPc' = "called"
    /\ UNCHANGED <<saCtor, saCaller, saGiven, saAuth, saEdits, nonSaVars>>

SaNext == SaNew \/ SaEdit \/ SaAuthenticate

\* ------------------------------------------------------------------ update JSON
MaxId == 2
MaxText == 2

\* A JSON string is a sequence of tokens: the letter a, an escaped quote, a
\* byte that is not valid UTF-8, the character U+FFFD, its escape \ufffd, or
\* a quote left unescaped. A Go string is a sequence of: the letter a, a
\* quote, U+FFFD, or a byte that is not valid UTF-8.
TelegramTokens == {"a", "esc-quote", "bad-byte", "quote"}

\* encoding/json writing one character of a string: quotes are escaped,
\* invalid UTF-8 is written as \ufffd.
EncodeChar(c) ==
    IF c = "quote" THEN "esc-quote"
    ELSE IF c = "bad-byte" THEN "esc-fffd"
    ELSE c

\* encoding/json reading one token of a string: escapes are resolved,
\* invalid UTF-8 becomes U+FFFD.
DecodeToken(t) ==
    IF t = "esc-quote" THEN "quote"
    ELSE IF t \in {"bad-byte", "esc-fffd"} THEN "U+FFFD"
    ELSE t

\* The JSON of an update: update_id and message (null, or an object with
\* text), or bytes that are not JSON.
JsonUpdate(id, null, text) ==
    [kind |-> "object", update_id |-> id, null |-> null, text |-> text]

JsonBad == [kind |-> "garbage", update_id |-> 0, null |-> TRUE, text |-> <<>>]

TelegramJson ==
    { JsonBad } \cup
    { JsonUpdate(id, TRUE, <<>>) : id \in 0..MaxId } \cup
    { JsonUpdate(id, FALSE, t) :
        id \in 0..MaxId, t \in SeqsUpTo(TelegramTokens, MaxText) }

NoUpdateGot == Maybe(Update(0, FALSE, <<>>), NilErr)

\* The server side of RegisterHandler serializes the update as JSON. The
\* handler in the repository sends nothing; the serializer is the one its
\* description gives, with encoding/json as the codec, as in the registrar's
\* test.
Serialize(u) ==
    JsonUpdate(u.id, ~u.hasMsg, [i \in 1..Len(u.text) |-> EncodeChar(u.text[i])])

\* json.Unmarshal(json, &update) into a zero tgbotapi.Update.
Deserialize(doc) ==
    IF doc.kind # "object" \/ \E i \in 1..Len(doc.text) : doc.text[i] = "quote"
    THEN Maybe(Update(0, FALSE, <<>>), JSONError)
    ELSE Maybe(Update(doc.update_id, ~doc.null,
                      [i \in 1..Len(doc.text) |-> DecodeToken(doc.text[i])]),
               NilErr)

\* jsoniter reading one token of a string: escapes are resolved, the bytes
\* of the string are copied as they are, valid UTF-8 or not.
JsoniterDecodeToken(t) ==
    IF t = "esc-quote" THEN "quote"
    ELSE IF t = "esc-fffd" THEN "U+FFFD"
    ELSE t

\* The positions of the unescaped quotes in the tokens of a JSON string.
Quotes(text) == { i \in 1..Len(text) : text[i] = "quote" }

\* jsoniter.Unmarshal([]byte(u), &tu) into a zero tgbotapi.Update. The
\* fields are stored as they are read, and tu is returned as it stands
\* when the error is met: bytes that are not an object leave it zero; a
\* string ends at its first unescaped quote, so update_id, the Message and
\* the text up to that quote are stored before the error.
JsoniterUnmarshal(doc) ==
    IF doc.kind # "object"
    THEN Maybe(Update(0, FALSE, <<>>), JSONError)
    ELSE IF Quotes(doc.text) # {}
    THEN LET q == CHOOSE i \in Quotes(doc.text) :
                      \A j \in Quotes(doc.text) : i <= j
         IN  Maybe(Update(doc.update_id, TRUE,
                          [i \in 1..(q - 1) |-> JsoniterDecodeToken(doc.text[i])]),
                   JSONError)
    ELSE Maybe(Update(doc.update_id, ~doc.null,
                      [i \in 1..Len(doc.text) |-> JsoniterDecodeToken(doc.text[i])]),
               NilErr)

JOff ==
    /\ jIn = JsonBad
    /\ jUpd = Update(0, FALSE, <<>>)
    /\ jWire = JsonBad
    /\ jGot = NoUpdateGot
    /\ jPc = "off"

JInit ==
    /\ jIn \in TelegramJson
    /\ jUpd = Update(0, FALSE, <<>>)
    /\ jWire = JsonBad
    /\ jGot = NoUpdateGot
    /\ jPc = "ingest"

\* The proxy parses what Telegram sent. The item of the mapped stream holds
\* tu as the decoder left it; one that comes with an error is not served.
JIngest ==
    /\ jPc = "ingest"
    /\ LET r == JsoniterUnmarshal(jIn)
       IN  /\ jUpd' = r.val
           /\ jPc' = (IF r.err # NilErr THEN "dropped" ELSE "held")
    /\ UNCHANGED <<jIn, jWire, jGot, nonJVars>>

\* The server side puts the update's JSON into genproto.Update.
JSerialize ==
    /\ jPc = "held"
    /\ jWire' = Serialize(jUpd)
    /\ jPc' = "wire"
    /\ UNCHANGED <<jIn, jUpd, jGot, nonJVars>>

\* tryRegister parses the Json of the genproto.Update it received.
JDeserialize ==
    /\ jPc = "wire"
    /\ jGot' = Deserialize(jWire)
    /\ jPc' = "done"
    /\ UNCHANGED <<jIn, jUpd, jWire, nonJVars>>

JNext == JIngest \/ JSerialize \/ JDeserialize

\* ------------------------------------------------------------------ gRPC server
MaxMatchers == 3

\* Matcher strings of a request: two that compile and one that does not.
MatcherStrings == {"^/a$", ".*", "("}

\* regexp.Compile succeeds.
Compiles(m) == m # "("

\* regexp.MustCompile for the strings that compile.
Compile(m) == IF m = ".*" THEN ReAny ELSE ReClass({"a"})

Requests == SeqsUpTo(MatcherStrings, MaxMatchers)

\* At least one matcher and every matcher compiles.
ValidRequest(req) ==
    Len(req) >= 1 /\ \A i \in 1..Len(req) : Compiles(req[i])

GroupOf(req) == [i \in 1..Len(req) |-> Compile(req[i])]

HOff ==
    /\ hPc = "off"
    /\ hReq = <<>>
    /\ hCtxDone = FALSE
    /\ hRet = "none"
    /\ hSent = <<>>

\* A client has called RegisterHandler; the interceptor let it through.
HInit ==
    /\ hPc = "called"
    /\ hReq \in Requests
    /\ hCtxDone = FALSE
    /\ hRet = "none"
    /\ hSent = <<>>

\* GRPC.RegisterHandler: returns nil, whatever the request; the stream ends
\* with status OK.
RegisterHandler ==
    /\ hPc = "called"
    /\ hPc' = "returned"
    /\ hRet' = "OK"
    /\ UNCHANGED <<hReq, hCtxDone, hSent, nonHVars>>

\* The peer cancels the stream or goes away.
HCancel ==
    /\ hPc # "off"
    /\ ~hCtxDone
    /\ hCtxDone' = TRUE
    /\ UNCHANGED <<hPc, hReq, hRet, hSent, nonHVars>>

ServerNext == RegisterHandler \/ HCancel

\* ------------------------------------------------------------------ long poll offset
\* The largest update_id a response holds.
MaxUpdateID == 3

\* LongPollOptions.Offset
StartOffsets == {0, 2}

\* An update_id that does not decode into an int: a string, a number out
\* of range, or the update_id of an element that is not an object.
BadID == -1

\* A getUpdates response with Ok=true: the update_ids of Result, in order.
\* An update without update_id reads as update_id 0.
Result(ids) == [kind |-> "ok", ids |-> ids]

Failure(kind) == [kind |-> kind, ids |-> <<>>]

\* What a poll ends with under a live context: a result, the poll's timeout,
\* another transport error, or a response with Ok=false.
PollOutcomes ==
    { Result(ids) : ids \in SeqsUpTo({BadID} \cup 0..MaxUpdateID, MaxBatch) }
    \cup { Failure("timeout"), Failure("network"), Failure("notok") }

\* An item of the stream.
Item(kind, id, poll) == [kind |-> kind, id |-> id, poll |-> poll]

QOff ==
    /\ qPc = "off"
    /\ qOffset = 0
    /\ qReqs = <<>>
    /\ qResp = Failure("none")
    /\ qIdx = 0
    /\ qEmitted = <<>>
    /\ qCtxDone = FALSE
    /\ qPolls = 0
    /\ qUnread = 0

\* NewLongPollStreamer(endpoint, token, opts), then Stream(ctx).
QInit ==
    /\ qPc = "poll"
    /\ qOffset \in StartOffsets
    /\ qReqs = <<>>
    /\ qResp = Failure("none")
    /\ qIdx = 0
    /\ qEmitted = <<>>
    /\ qCtxDone = FALSE
    /\ qPolls = 0
    /\ qUnread = 0

\* poll: the query is encoded from params and the request made; under a
\* done context Client.Do fails with the context's error.
QPoll ==
    /\ qPc = "poll"
    /\ qCtxDone \/ qPolls < MaxPolls
    /\ qPolls' = IF qCtxDone THEN qPolls ELSE qPolls + 1
    /\ IF qCtxDone THEN qResp' = Failure("canceled")
       ELSE qResp' \in PollOutcomes
    /\ qReqs' = Append(qReqs, [offset |-> qOffset, live |-> ~qCtxDone,
                               resp |-> qResp'])
    /\ qPc' = "polled"
    /\ UNCHANGED <<qOffset, qIdx, qEmitted, qCtxDone, qUnread, nonQVars>>

\* Stream's loop after poll returned: the check of ctx.Done() after an
\* error, up to the send of the error or to the loop of parseUpdates.
QHandle ==
    /\ qPc = "polled"
    /\ IF qResp.kind \in {"timeout", "network", "canceled"}
       THEN IF qCtxDone THEN qPc' = "done" ELSE qPc' = "sendErr"
       ELSE IF qResp.kind = "notok" THEN qPc' = "sendErr"
            ELSE qPc' = "emit"
    /\ qIdx' = 1
    /\ UNCHANGED <<qOffset, qReqs, qResp, qEmitted, qCtxDone, qPolls,
                   qUnread, nonQVars>>

\* stream <- Maybe[RawUpdate]{Error: ...}: waits while the stream is full;
\* after a temporary timeout the loop continues, else the goroutine ends.
QSendErr ==
    /\ qPc = "sendErr"
    /\ qUnread < Limit
    /\ qUnread' = qUnread + 1
    /\ IF qResp.kind = "timeout"
       THEN /\ qEmitted' = Append(qEmitted, Item("timeout", 0, qPolls))
            /\ qPc' = "poll"
       ELSE /\ qEmitted' = Append(qEmitted, Item("error", 0, qPolls))
            /\ qPc' = "done"
    /\ UNCHANGED <<qOffset, qReqs, qResp, qIdx, qCtxDone, qPolls, nonQVars>>

\* parseUpdates, the select at the head of the loop over Result: return nil
\* if the context is done.
QEmit ==
    /\ qPc = "emit"
    /\ qIdx <= Len(qResp.ids)
    /\ qPc' = IF qCtxDone THEN "poll" ELSE "send"
    /\ UNCHANGED <<qOffset, qReqs, qResp, qIdx, qEmitted, qCtxDone, qPolls,
                   qUnread, nonQVars>>

\* stream <- Maybe[RawUpdate]{Value: u}: waits while the stream is full.
QSend ==
    /\ qPc = "send"
    /\ qUnread < Limit
    /\ qUnread' = qUnread + 1
    /\ qEmitted' = Append(qEmitted, Item("update", qResp.ids[qIdx], qPolls))
    /\ qIdx' = qIdx + 1
    /\ qPc' = "emit"
    /\ UNCHANGED <<qOffset, qReqs, qResp, qCtxDone, qPolls, nonQVars>>

QSetOffsetNoIncrement ==
    /\ qPc = "emit"
    /\ qIdx > Len(qResp.ids)
    /\ IF Len(qResp.ids) > 0
       THEN IF qResp.ids[Len(qResp.ids)] = BadID
            THEN qPc' = "sendErr" /\ UNCHANGED qOffset
            ELSE qPc' = "poll" /\ qOffset' = qResp.ids[Len(qResp.ids)]
       ELSE qPc' = "poll" /\ UNCHANGED qOffset
    /\ UNCHANGED <<qReqs, qResp, qIdx, qEmitted, qCtxDone, qPolls, qUnread,
                   nonQVars>>

\* parseUpdates after the loop: with a non-empty Result the offset becomes
\* the update_id of its last element plus one; if that update_id does not
\* decode, parseUpdates returns an error and Stream goes on to send it.
QSetOffset ==
    /\ qPc = "emit"
    /\ qIdx > Len(qResp.ids)
    /\ IF Len(qResp.ids) > 0
       THEN IF qResp.ids[Len(qResp.ids)] = BadID
            THEN qPc' = "sendErr" /\ UNCHANGED qOffset
            ELSE qPc' = "poll" /\ qOffset' = qResp.ids[Len(qResp.ids)] + 1
       ELSE qPc' = "poll" /\ UNCHANGED qOffset
    /\ UNCHANGED <<qReqs, qResp, qIdx, qEmitted, qCtxDone, qPolls, qUnread,
                   nonQVars>>

\* The consumer receives one item from the stream.
QRead ==
    /\ qPc # "off"
    /\ qUnread > 0
    /\ qUnread' = qUnread - 1
    /\ UNCHANGED <<qPc, qOffset, qReqs, qResp, qIdx, qEmitted, qCtxDone,
                   qPolls, nonQVars>>

\* cancel() of the context given to Stream.
QCancel ==
    /\ qPc \notin {"off", "done"}
    /\ ~qCtxDone
    /\ qCtxDone' = TRUE
    /\ UNCHANGED <<qPc, qOffset, qReqs, qResp, qIdx, qEmitted, qPolls,
                   qUnread, nonQVars>>

OffsetNext ==
    QPoll \/ QHandle \/ QSendErr \/ QEmit \/ QSend \/ QSetOffset \/ QRead
        \/ QCancel

\* ------------------------------------------------------------------ Client.Run
\* RPCs made under a live context in one run.
MaxClientRpc == 3
\* Updates the RegisterHandler streams deliver in one run.
MaxUpdates == 2
\* Calls of the handler in one run.
MaxHandled == 3

\* Logger, Handler and Matchers of the Client, and GRPCEndpoint with Token.
ClientFields ==
    [logger : BOOLEAN, handler : BOOLEAN, matchers : 0..1, endpoint : BOOLEAN]

\* What an RPC fails with, or "OK". A call under a done context ends with
\* the context's error.
RpcResults(done) ==
    IF done THEN {"Canceled"}
    ELSE {"OK", "Unavailable", "Unauthenticated", "DeadlineExceeded"}

Rpc(op, res, live) == [op |-> op, res |-> res, live |-> live]

LiveRpcs == Len(SelectSeq(clLog, LAMBDA c : c.live /\ c.op # "Dial"))

\* The function getConfig passes to retry.Backoff, on GetConfig's error.
GetConfigOp(err) ==
    IF err = NilErr THEN NilErr
    ELSE IF IsGRPCUnavailable(err) THEN Recoverable2(err)
    ELSE Unrecoverable2(err)

ClOff ==
    /\ clIn = [logger |-> FALSE, handler |-> FALSE, matchers |-> 0,
               endpoint |-> FALSE]
    /\ clPc = "off"
    /\ clRet = NilErr
    /\ clCtxDone = FALSE
    /\ clLog = <<>>
    /\ clNext = 0
    /\ clSlept = 0
    /\ clErrCh = NilErr
    /\ clHandled = <<>>
    /\ rgPc = "off"
    /\ rgUpdates = 0

\* Run(ctx) has been called on some Client.
ClInit ==
    /\ clIn \in ClientFields
    /\ clPc = "init"
    /\ clRet = NilErr
    /\ clCtxDone = FALSE
    /\ clLog = <<>>
    /\ clNext = 0
    /\ clSlept = 0
    /\ clErrCh = NilErr
    /\ clHandled = <<>>
    /\ rgPc = "off"
    /\ rgUpdates = 0

ClReturn(err) == clPc' = "returned" /\ clRet' = err

\* Run: the check of Logger, Handler and Matchers.
ClValidate ==
    /\ clPc = "init"
    /\ IF ~clIn.logger \/ ~clIn.handler \/ clIn.matchers < 1
       THEN ClReturn(Plain("logger, handler and matchers must be specified"))
       ELSE clPc' = "dial" /\ UNCHANGED clRet
    /\ UNCHANGED <<clIn, clCtxDone, clLog, clNext, clSlept, clErrCh,
                   clHandled, rgPc, rgUpdates, nonClVars>>

\* connectGRPC: the check of GRPCEndpoint and Token, then grpc.Dial.
ClConnectGRPC ==
    /\ clPc = "dial"
    /\ IF ~clIn.endpoint
       THEN /\ ClReturn(Plain("endpoint and token must not be empty"))
            /\ UNCHANGED <<clLog, clNext>>
       ELSE \E res \in {"OK", "failed"} :
               /\ clLog' = Append(clLog, Rpc("Dial", res, ~clCtxDone))
               /\ IF res = "OK"
                  THEN /\ clPc' = "config"
                       /\ clNext' = DefaultBackoffMinDelay
                       /\ UNCHANGED clRet
                  ELSE /\ ClReturn(Errorf(Plain("dial")))
                       /\ UNCHANGED clNext
    /\ UNCHANGED <<clIn, clCtxDone, clSlept, clErrCh, clHandled, rgPc,
                   rgUpdates, nonClVars>>

ClGetConfigRetriesAll ==
    /\ clPc = "config"
    /\ clCtxDone \/ LiveRpcs < MaxClientRpc
    /\ \E res \in RpcResults(clCtxDone) :
          /\ clLog' = Append(clLog, Rpc("GetConfig", res, ~clCtxDone))
          /\ IF res = "OK" THEN clPc' = "http" /\ UNCHANGED clRet
             ELSE clPc' = "configSleep" /\ UNCHANGED clRet
    /\ UNCHANGED <<clIn, clCtxDone, clNext, clSlept, clErrCh, clHandled,
                   rgPc, rgUpdates, nonClVars>>

\* getConfig, one pass of Backoff's loop up to the sleep: the GetConfig RPC
\* and Recover's test of the error.
ClGetConfig ==
    /\ clPc = "config"
    /\ clCtxDone \/ LiveRpcs < MaxClientRpc
    /\ \E res \in RpcResults(clCtxDone) :
          /\ clLog' = Append(clLog, Rpc("GetConfig", res, ~clCtxDone))
          /\ LET err == GetConfigOp(IF res = "OK" THEN NilErr ELSE Status(res))
             IN  IF err = NilErr
                 THEN clPc' = "http" /\ UNCHANGED clRet
                 ELSE IF RecoverStops(2, err)
                      THEN ClReturn(Errorf(Wrapped(err)))
                      ELSE clPc' = "configSleep" /\ UNCHANGED clRet
    /\ UNCHANGED <<clIn, clCtxDone, clNext, clSlept, clErrCh, clHandled,
                   rgPc, rgUpdates, nonClVars>>

\* time.Sleep(s()) of Backoff in getConfig.
ClConfigSleep ==
    /\ clPc = "configSleep"
    /\ clSlept' = clNext
    /\ clNext' = BackoffNext(clNext)
    /\ clPc' = "config"
    /\ UNCHANGED <<clIn, clRet, clCtxDone, clLog, clErrCh, clHandled, rgPc,
                   rgUpdates, nonClVars>>

\* connectHTTP, NewGRPCRegistrar and registrar.Register, which starts the
\* goroutine; Matchers is not empty here.
ClConnectHTTP ==
    /\ clPc = "http"
    /\ \/ /\ ClReturn(Errorf(Plain("bot api")))
          /\ UNCHANGED rgPc
       \/ /\ clPc' = "loop"
          /\ rgPc' = "dial"
          /\ UNCHANGED clRet
    /\ UNCHANGED <<clIn, clCtxDone, clLog, clNext, clSlept, clErrCh,
                   clHandled, rgUpdates, nonClVars>>

\* The goroutine ends: with err put into errorch if it is not nil, and both
\* channels closed.
RgEnd(err) == rgPc' = "ended" /\ clErrCh' = err

\* tryRegister: one RegisterHandler call of its Backoff.
RgRegisterHandler ==
    /\ rgPc = "dial"
    /\ clCtxDone \/ LiveRpcs < MaxClientRpc
    /\ \E res \in RpcResults(clCtxDone) :
          /\ clLog' = Append(clLog, Rpc("RegisterHandler", res, ~clCtxDone))
          /\ IF res = "OK" THEN rgPc' = "recv" /\ UNCHANGED clErrCh
             ELSE IF res = "Unavailable"
                  THEN rgPc' = "sleep" /\ UNCHANGED clErrCh
                  ELSE IF IsGRPCCanceled(Status(res)) THEN RgEnd(NilErr)
                       ELSE RgEnd(Errorf(Status(res)))
    /\ UNCHANGED <<clIn, clPc, clRet, clCtxDone, clNext, clSlept, clHandled,
                   rgUpdates, nonClVars>>

\* The sleep of Backoff or Static before the next RegisterHandler call.
RgSleep ==
    /\ rgPc = "sleep"
    /\ rgPc' = "dial"
    /\ UNCHANGED <<clIn, clPc, clRet, clCtxDone, clLog, clNext, clSlept,
                   clErrCh, clHandled, rgUpdates, nonClVars>>

\* stream.Recv() and the json.Unmarshal of what it returned.
RgRecv ==
    /\ rgPc = "recv"
    /\ \/ /\ ~clCtxDone
          /\ rgUpdates < MaxUpdates
          /\ rgUpdates' = rgUpdates + 1
          /\ rgPc' = "send"
          /\ UNCHANGED clErrCh
       \/ /\ ~clCtxDone
          /\ rgPc' = "sleep"
          /\ UNCHANGED <<clErrCh, rgUpdates>>
       \/ /\ RgEnd(NilErr)
          /\ UNCHANGED rgUpdates
       \/ /\ ~clCtxDone
          /\ \E e \in {Status("Unauthenticated"), JSONError} : RgEnd(Errorf(e))
          /\ UNCHANGED rgUpdates
    /\ UNCHANGED <<clIn, clPc, clRet, clCtxDone, clLog, clNext, clSlept,
                   clHandled, nonClVars>>

\* The select of tryRegister takes <-ctx.Done().
RgSendAbandoned ==
    /\ rgPc = "send"
    /\ clCtxDone
    /\ RgEnd(NilErr)
    /\ UNCHANGED <<clIn, clPc, clRet, clCtxDone, clLog, clNext, clSlept,
                   clHandled, rgUpdates, nonClVars>>

\* Run's select takes update := <-updatech from the goroutine's send and
\* calls c.Handler.Serve(ctx, update).
ClRecvUpdate ==
    /\ clPc = "loop"
    /\ rgPc = "send"
    /\ Len(clHandled) < MaxHandled
    /\ clHandled' = Append(clHandled, rgUpdates)
    /\ clPc' = "handling"
    /\ rgPc' = "recv"
    /\ UNCHANGED <<clIn, clRet, clCtxDone, clLog, clNext, clSlept, clErrCh,
                   rgUpdates, nonClVars>>

\* Run's select takes update := <-updatech from the closed channel: the
\* zero Update, which it hands to the handler.
ClRecvClosed ==
    /\ clPc = "loop"
    /\ rgPc = "ended"
    /\ Len(clHandled) < MaxHandled
    /\ clHandled' = Append(clHandled, 0)
    /\ clPc' = "handling"
    /\ UNCHANGED <<clIn, clRet, clCtxDone, clLog, clNext, clSlept, clErrCh,
                   rgPc, rgUpdates, nonClVars>>

\* Handler.Serve returns.
ClHandlerReturn ==
    /\ clPc = "handling"
    /\ clPc' = "loop"
    /\ UNCHANGED <<clIn, clRet, clCtxDone, clLog, clNext, clSlept, clErrCh,
                   clHandled, rgPc, rgUpdates, nonClVars>>

\* Run's select takes err = <-errorch: the buffered error, or nil from the
\* closed channel.
ClRecvError ==
    /\ clPc = "loop"
    /\ rgPc = "ended"
    /\ ClReturn(clErrCh)
    /\ clErrCh' = NilErr
    /\ UNCHANGED <<clIn, clCtxDone, clLog, clNext, clSlept, clHandled, rgPc,
                   rgUpdates, nonClVars>>

\* Run's select takes <-ctx.Done().
ClDone ==
    /\ clPc = "loop"
    /\ clCtxDone
    /\ ClReturn(NilErr)
    /\ UNCHANGED <<clIn, clCtxDone, clLog, clNext, clSlept, clErrCh,
                   clHandled, rgPc, rgUpdates, nonClVars>>

\* The caller cancels the context it gave to Run.
ClCancel ==
    /\ clPc \notin {"off", "returned"}
    /\ ~clCtxDone
    /\ clCtxDone' = TRUE
    /\ UNCHANGED <<clIn, clPc, clRet, clLog, clNext, clSlept, clErrCh,
                   clHandled, rgPc, rgUpdates, nonClVars>>

\* The steps of Run itself.
RunStep ==
    \/ ClValidate
    \/ ClConnectGRPC
    \/ ClGetConfig
    \/ ClConfigSleep
    \/ ClConnectHTTP
    \/ ClRecvUpdate
    \/ ClRecvClosed
    \/ ClRecvError
    \/ ClDone

\* The steps of the registrar's goroutine.
RegistrarStep == RgRegisterHandler \/ RgSleep \/ RgRecv \/ RgSendAbandoned

RunNext == RunStep \/ RegistrarStep \/ ClHandlerReturn \/ ClCancel

\* ------------------------------------------------------- HTTP.AuthMiddleware
\* Characters of a path after its first segment's start.
MaxRest == 4

StatusBadRequest == 400
StatusUnauthorized == 401

Chars(str) ==
    CASE str = "/proxy" -> <<"/", "p", "r", "o", "x", "y">>
      [] str = "/prox" -> <<"/", "p", "r", "o", "x">>
      [] str = "/bot" -> <<"/", "b", "o", "t">>
      [] OTHER -> <<>>

\* A word character, a second one, the slash, a character outside \w, and
\* the newline, which . does not match.
PathAlphabet == {"t", "u", "/", "-", "\n"}

Paths ==
    {Chars(p) \o rest :
        p \in {"/proxy", "/prox", "/bot", ""}, rest \in SeqsUpTo(PathAlphabet, MaxRest)}

\* \w of RE2: [0-9A-Za-z_]
IsWord(c) == c \in {"t", "u", "p", "r", "o", "x", "y", "b"}

\* The length of the longest run of word characters of s from position i.
RECURSIVE WordRun(_, _)
WordRun(s, i) ==
    IF i > Len(s) \/ ~IsWord(s[i]) THEN 0 ELSE 1 + WordRun(s, i + 1)

HasPrefix(s, p) == Len(s) >= Len(p) /\ SubSeq(s, 1, Len(p)) = p

\* pathRe.FindStringSubmatch for ^/proxy(\w+)(/.+)$: nil, or the match and
\* its two groups. A word run is followed by "/" only at its full length.
PathReFind(path) ==
    LET start == Len(Chars("/proxy")) + 1
        n == WordRun(path, start)
        slash == start + n
    IN  IF /\ HasPrefix(path, Chars("/proxy"))
           /\ n >= 1
           /\ slash < Len(path)
           /\ path[slash] = "/"
           /\ \A k \in (slash + 1)..Len(path) : path[k] # "\n"
        THEN <<path, SubSeq(path, start, slash - 1), SubSeq(path, slash, Len(path))>>
        ELSE <<>>

\* The tokens of the proxy's AuthProvider and their clients.
PathClients ==
    [tok \in {<<"t">>, <<"t", "u">>} |->
        IF tok = <<"t">> THEN Client("alice") ELSE Client("bob")]

\* AuthProvider.Authenticate on the token of a path.
PathAuthenticate(token) ==
    IF token \in DOMAIN PathClients
    THEN [client |-> PathClients[token], err |-> NilErr]
    ELSE [client |-> Client(""), err |-> ErrInvalidToken]

\* next.ServeHTTP not called; called with a request.
NotForwarded == [called |-> FALSE, path |-> <<>>, hasClient |-> FALSE, client |-> Client("")]

Forwarded(path, hasClient, client) ==
    [called |-> TRUE, path |-> path, hasClient |-> hasClient, client |-> client]

MwOff ==
    /\ mwPc = "off"
    /\ mwHasAuth = FALSE
    /\ mwPath = <<>>
    /\ mwStatus = 0
    /\ mwNext = NotForwarded

MwInit ==
    /\ mwPc = "idle"
    /\ mwHasAuth \in BOOLEAN
    /\ mwPath = <<>>
    /\ mwStatus = 0
    /\ mwNext = NotForwarded

\* A request arrives.
MwRequest ==
    /\ mwPc = "idle"
    /\ mwPath' \in Paths
    /\ mwPc' = "request"
    /\ UNCHANGED <<mwHasAuth, mwStatus, mwNext, nonMwVars>>

MwServeIgnoresAuthError ==
    /\ mwPc = "request"
    /\ LET groups == PathReFind(mwPath)
       IN  IF groups = <<>>
           THEN mwStatus' = StatusBadRequest /\ mwNext' = NotForwarded
           ELSE IF mwHasAuth
                THEN /\ mwStatus' = 0
                     /\ mwNext' = Forwarded(groups[3], TRUE,
                                            PathAuthenticate(groups[2]).client)
                ELSE /\ mwStatus' = 0
                     /\ mwNext' = Forwarded(mwPath, FALSE, Client(""))
    /\ mwPc' = "served"
    /\ UNCHANGED <<mwHasAuth, mwPath, nonMwVars>>

\* The handler AuthMiddleware returns, on one request.
MwServe ==
    /\ mwPc = "request"
    /\ LET groups == PathReFind(mwPath)
       IN  IF groups = <<>>
           THEN mwStatus' = StatusBadRequest /\ mwNext' = NotForwarded
           ELSE IF mwHasAuth
                THEN LET res == PathAuthenticate(groups[2])
                     IN  IF res.err # NilErr
                         THEN /\ mwStatus' = StatusUnauthorized
                              /\ mwNext' = NotForwarded
                         ELSE /\ mwStatus' = 0
                              /\ mwNext' = Forwarded(groups[3], TRUE, res.client)
                ELSE /\ mwStatus' = 0
                     /\ mwNext' = Forwarded(mwPath, FALSE, Client(""))
    /\ mwPc' = "served"
    /\ UNCHANGED <<mwHasAuth, mwPath, nonMwVars>>

\* The response has been sent; the server takes the next request.
MwDone ==
    /\ mwPc = "served"
    /\ mwPc' = "idle"
    /\ mwPath' = <<>>
    /\ mwStatus' = 0
    /\ mwNext' = NotForwarded
    /\ UNCHANGED <<mwHasAuth, nonMwVars>>

MiddlewareNext == MwRequest \/ MwServe \/ MwDone

vars == <<muxVars, retryVars, grpcVars, streamVars, authVars, saVars, jVars, hVars, qVars, clVars, mwVars>>

\* A retry call on its own: the multiplexer and the registrar stay as built.
RetryStart == MuxInit /\ script = <<>> /\ GrpcInit /\ RetryInit /\ StreamOff /\ AuthOff /\ SaOff /\ JOff /\ HOff /\ QOff /\ ClOff /\ MwOff

\* The long-poll streamer's requests against any sequence of poll outcomes.
OffsetInit ==
    MuxInit /\ script = <<>> /\ RetryOff /\ GrpcInit /\ StreamOff /\ AuthOff
    /\ SaOff /\ JOff /\ HOff /\ QInit /\ ClOff /\ MwOff

OffsetSpec == OffsetInit /\ [][OffsetNext]_vars

\* Client.Run on any Client, against any server.
RunInit ==
    MuxInit /\ script = <<>> /\ RetryOff /\ GrpcInit /\ StreamOff /\ AuthOff
    /\ SaOff /\ JOff /\ HOff /\ QOff /\ ClInit /\ MwOff

RunSpec == RunInit /\ [][RunNext]_vars

\* The auth middleware of the HTTP proxy serving any requests.
MiddlewareInit ==
    MuxInit /\ script = <<>> /\ RetryOff /\ GrpcInit /\ StreamOff /\ AuthOff
    /\ SaOff /\ JOff /\ HOff /\ QOff /\ ClOff /\ MwInit

MiddlewareSpec == MiddlewareInit /\ [][MiddlewareNext]_vars

ScheduleStart ==
    MuxInit /\ script = <<>> /\ GrpcInit /\ ScheduleInit /\ StreamOff /\ AuthOff
    /\ SaOff /\ JOff /\ HOff /\ QOff /\ ClOff /\ MwOff

ScheduleSpec == ScheduleStart /\ [][RetryNext]_vars

RetrySpec == RetryStart /\ [][RetryNext]_vars

RegistrarInit == MuxInit /\ script = <<>> /\ RetryOff /\ GrpcInit /\ StreamOff /\ AuthOff /\ SaOff /\ JOff /\ HOff /\ QOff /\ ClOff /\ MwOff

\* MappedStream over a stream a test feeds.
StreamInit ==
    MuxInit /\ script = <<>> /\ RetryOff /\ GrpcInit /\ LongPollOff /\ MappedInit
    /\ AuthOff /\ SaOff /\ JOff /\ HOff /\ QOff /\ ClOff /\ MwOff

StreamSpec == StreamInit /\ [][StreamNext]_vars

\* One RPC through the server-side interceptor.
AuthStart ==
    MuxInit /\ script = <<>> /\ RetryOff /\ GrpcInit /\ StreamOff /\ AuthInit
    /\ SaOff /\ JOff /\ HOff /\ QOff /\ ClOff /\ MwOff

AuthSpec == AuthStart /\ [][AuthNext]_vars

\* A static provider or authenticator is built from a table and asked
\* about tokens.
StaticStart ==
    MuxInit /\ script = <<>> /\ RetryOff /\ GrpcInit /\ StreamOff /\ AuthOff
    /\ SaInit /\ JOff /\ HOff /\ QOff /\ ClOff /\ MwOff

StaticSpec == StaticStart /\ [][SaNext]_vars

\* The same, built by NewStaticAuthenticator.
SaStart == StaticStart /\ saCtor = "NewStaticAuthenticator"

SaSpec == SaStart /\ [][SaNext]_vars

\* One update from Telegram's JSON through RegisterHandler to a handler.
JStart ==
    MuxInit /\ script = <<>> /\ RetryOff /\ GrpcInit /\ StreamOff /\ AuthOff
    /\ SaOff /\ JInit /\ HOff /\ QOff /\ ClOff /\ MwOff

JSpec == JStart /\ [][JNext]_vars

\* The proxy's gRPC server answering one RegisterHandler call, with the
\* multiplexer it would subscribe to.
ServerInit ==
    MuxInit /\ script = <<>> /\ RetryOff /\ GrpcInit /\ StreamOff /\ AuthOff
    /\ SaOff /\ JOff /\ HInit /\ QOff /\ ClOff /\ MwOff

ServerSpec == ServerInit /\ [][ServerNext]_vars

\* streamer.Stream(ctx).AsTgBotAPI(capacity) and its consumer.
PollInit ==
    MuxInit /\ script = <<>> /\ RetryOff /\ GrpcInit /\ LongPollInit /\ MappedInit
    /\ AuthOff /\ SaOff /\ JOff /\ HOff /\ QOff /\ ClOff /\ MwOff

PollSpec == PollInit /\ [][PollNext]_vars

\* The goroutines of the streamer and of MappedStream are scheduled, and a
\* consumer that reads or drains goes on doing so.
PollFairSpec ==
    PollInit /\ [][PollNext]_vars /\ WF_vars(LongPollNext) /\ WF_vars(MappedNext)

\* The goroutines of MappedStream are scheduled and the consumer keeps
\* reading; nothing makes the producer send or close.
StreamFairSpec ==
    StreamInit /\ [][StreamNext]_vars /\ WF_vars(MappedNext)

RegistrarSpec == RegistrarInit /\ [][RegistrarNext]_vars

\* One call of gRPCRegistrar.Register against a mock client.
ClientInit == RegistrarInit

ClientSpec == ClientInit /\ [][ClientNext]_vars

\* The goroutine is scheduled, sleeps end, and calls on the client return.
ClientFairSpec == ClientInit /\ [][ClientNext]_vars /\ WF_vars(GoroutineNext)

Init == MuxInit /\ script = <<>> /\ RetryOff /\ GrpcInit /\ StreamOff /\ AuthOff /\ SaOff /\ JOff /\ HOff /\ QOff /\ ClOff /\ MwOff

Next == MuxNext

Spec == Init /\ [][Next]_vars

\* The serving task is scheduled: a Serve call that can take a step takes one.
\* Nothing makes the environment register, cancel, receive or call Serve.
ServeStep ==
    /\ \/ \E k \in Keys : ServeVisit(k)
       \/ ServeSend
       \/ ServeEnd
    /\ UNCHANGED nonMuxVars

FairSpec == Init /\ [][Next]_vars /\ WF_vars(ServeStep)

\* ------------------------------------------------------------------ scripted runs
\* The scenarios of TestMultiplexer's kind: subscribers are registered one
\* after the other, then the updates are served in order from one task; the
\* consumers receive whenever they can and never cancel.
Cmd(op, arg) == [op |-> op, arg |-> arg]

OverlapScript ==
    << Cmd("reg", <<ReClass({"a", "b"})>>),
       Cmd("reg", <<ReClass({"a", "b", "c", "d", "e", "f"})>>),
       Cmd("serve", TextA), Cmd("serve", TextB), Cmd("serve", TextC),
       Cmd("serve", TextG), Cmd("end", "overlap") >>

DisjointScript ==
    << Cmd("reg", <<ReClass({"a"})>>),
       Cmd("reg", <<ReClass({"b"})>>),
       Cmd("serve", TextA), Cmd("serve", TextB), Cmd("serve", TextC),
       Cmd("end", "disjoint") >>

Scripts == {OverlapScript, DisjointScript}

ScriptRegister ==
    /\ script # <<>>
    /\ Head(script).op = "reg"
    /\ regPending = {}
    /\ RegisterBegin(Head(script).arg)
    /\ script' = Tail(script)

ScriptServe ==
    /\ script # <<>>
    /\ Head(script).op = "serve"
    /\ regPending = {}
    /\ ServeBegin([hasMsg |-> TRUE, text |-> Head(script).arg])
    /\ script' = Tail(script)

ScenarioInit == MuxInit /\ script \in Scripts /\ RetryOff /\ GrpcInit /\ StreamOff /\ AuthOff /\ SaOff /\ JOff /\ HOff /\ QOff /\ ClOff /\ MwOff

ScenarioNext ==
    \/ ScriptRegister /\ UNCHANGED nonMuxVars
    \/ \E k \in Keys : RegisterStore(k) /\ UNCHANGED nonMuxVars
    \/ ScriptServe /\ UNCHANGED nonMuxVars
    \/ \E k \in Keys : ServeVisit(k) /\ UNCHANGED nonMuxVars
    \/ ServeSend /\ UNCHANGED nonMuxVars
    \/ ServeEnd /\ UNCHANGED nonMuxVars
    \/ \E k \in Keys : Receive(k) /\ UNCHANGED nonMuxVars

ScenarioSpec == ScenarioInit /\ [][ScenarioNext]_vars

\* ------------------------------------------------------------------ properties
\* What has been sent on the channel of k, as far as the model remembers it:
\* the last update its consumer received and what is still buffered.
Delivered(k) ==
    (IF lastRecv[k] = NoUpdate THEN <<>> ELSE <<lastRecv[k]>>) \o channel[k]

\* C1. Matcher correctness: every update sent to a subscription carries a
\* Message whose Text its matcher group matches.
C1_MatcherCorrectness ==
    \A k \in Keys : \A i \in 1..Len(Delivered(k)) :
        /\ Delivered(k)[i].hasMsg
        /\ \E j \in 1..Len(handlers[k]) :
               RegexMatch(handlers[k][j], Delivered(k)[i].text)

\* A two-regex subscriber has received update 2 (matched by its second
\* regex) after another subscription was cancelled and closed.
C1_Witness ==
    \E k \in Keys :
        /\ Len(handlers[k]) = 2
        /\ lastRecv[k] = Update(2, TRUE, TextA)
        /\ \E j \in Keys \ {k} : ctxDone[j] /\ closes[j] = 1

\* The texts of a sequence of updates.
Texts(us) == [i \in 1..Len(us) |-> us[i].text]

\* The texts a finished script has served.
ServedTexts(name) ==
    IF name = "overlap" THEN <<TextA, TextB, TextC, TextG>>
    ELSE <<TextA, TextB, TextC>>

ScriptDone ==
    /\ script # <<>>
    /\ Head(script).op = "end"
    /\ sPc = "idle"
    /\ \A k \in Keys : channel[k] = <<>>

\* C2. Single-task Serve, live subscribers that keep receiving: each
\* subscriber has received exactly the served updates its group matches, once
\* each and in order; the two scenarios end with the expected lists.
C2_ExactDelivery ==
    ScriptDone =>
        /\ \A k \in Keys :
               Texts(received[k]) =
                   SelectSeq(ServedTexts(Head(script).arg),
                             LAMBDA t : MatchString(handlers[k], t))
        /\ Head(script).arg = "overlap" =>
               /\ Texts(received[1]) = <<TextA, TextB>>
               /\ Texts(received[2]) = <<TextA, TextB, TextC>>
        /\ Head(script).arg = "disjoint" =>
               /\ Texts(received[1]) = <<TextA>>
               /\ Texts(received[2]) = <<TextB>>

\* The overlapping scenario has run to its end.
C2_Witness ==
    /\ ScriptDone
    /\ Head(script).arg = "overlap"
    /\ nServed = 4
    /\ Len(received[2]) = 3

\* C3. Per-subscription ordering: with update ids handed to Serve in
\* increasing order, the ids sent to a subscription are strictly increasing.
C3_Ordering ==
    \A k \in Keys : \A i, j \in 1..Len(Delivered(k)) :
        i < j => Delivered(k)[i].id < Delivered(k)[j].id

\* A consumer has received update 1 and update 2 is buffered behind it.
C3_Witness ==
    \E k \in Keys :
        /\ lastRecv[k].id = 1
        /\ Len(channel[k]) = 1
        /\ channel[k][1].id = 2

\* C4 as stated: nothing is delivered for an update without message text.
C4_NoTextNoDelivery ==
    \A k \in Keys : \A i \in 1..Len(Delivered(k)) :
        Delivered(k)[i].hasMsg /\ Delivered(k)[i].text # TextEmpty

\* C4, amended. Nothing is delivered for an update without a Message, and the
\* update being served is on no channel while no allocated matcher group
\* matches its text. (A Message with empty Text is dispatched like any other.)
C4_NoMatchDrop ==
    /\ \A k \in Keys : \A i \in 1..Len(Delivered(k)) : Delivered(k)[i].hasMsg
    /\ (sPc # "idle" /\ \A k \in Keys : ~MatchString(handlers[k], sUpdate.text))
         => \A k \in Keys : \A i \in 1..Len(Delivered(k)) :
                Delivered(k)[i].id # sUpdate.id

\* Serve has called back for a live subscriber whose group does not match
\* the update, and there is no other subscription.
C4_Witness ==
    /\ sPc = "range"
    /\ sUpdate.text = TextEmpty
    /\ \E k \in Keys :
          /\ Keys = {k}
          /\ k \in sVisited /\ k \in store /\ ~ctxDone[k]
          /\ Len(handlers[k]) = 2
          /\ sTodo = {k}

\* C5. No channel is closed twice and nothing is sent on a closed channel:
\* neither runtime panic is reachable, and Serve never waits to send on a
\* channel that has been closed.
C5_NoDoubleCloseNoSendAfterClose ==
    /\ panicked = "none"
    /\ \A k \in Keys : closes[k] <= 1 /\ (closes[k] = 1 => k \notin store)
    /\ sPc = "send" => closes[sCur] = 0

\* Both subscriptions have been closed, one of them by the second select.
C5_Witness ==
    /\ curKey = 2
    /\ closes[1] = 1 /\ closes[2] = 1
    /\ lastRecv[1].id > 0
    /\ nServed = 2

\* Serve is blocked in its second select: the channel of the live subscriber
\* it sends to is full.
ServeBlocked == sPc = "send" /\ ~ctxDone[sCur] /\ ~SendReady(sCur)

\* The original statement of C6: the channel of every cancelled subscription
\* is eventually closed.
C6_EveryCancelledEventuallyClosed ==
    \A k \in 1..MaxSubs :
        (k <= curKey /\ ctxDone[k]) ~> (k <= curKey /\ closes[k] = 1)

\* C6. A Range callback that runs for a subscription whose context is done
\* removes it from the registry and closes its channel, for the first time,
\* whatever the update; a channel is closed only for a cancelled subscription;
\* and a cancelled subscription that a running Serve has to visit is closed,
\* unless Serve is blocked on the full channel of a live subscriber.
C6_CancelledIsClosedOnVisit ==
    /\ [][ /\ \A k \in Keys :
                 (sPc = "range" /\ k \in sVisited' /\ k \notin sVisited
                    /\ ctxDone[k])
                   => (k \notin store' /\ closes[k] = 0 /\ closes'[k] = 1)
           /\ \A k \in Keys : closes'[k] > 0 => ctxDone'[k] ]_vars
    /\ \A k \in 1..MaxSubs :
          (k <= curKey /\ ctxDone[k] /\ k \in sTodo \ sVisited)
             ~> ((k <= curKey /\ closes[k] = 1) \/ ServeBlocked)

\* A cancelled subscriber whose group does not match the update being served
\* has been removed and closed by the running Serve.
C6_Witness ==
    /\ sPc = "range"
    /\ sUpdate.text = TextEmpty
    /\ \E k \in sVisited :
          /\ Len(handlers[k]) = 2
          /\ ~MatchString(handlers[k], sUpdate.text)
          /\ k \in sTodo /\ k \notin store /\ closes[k] = 1

\* C7. Backpressure: blocked on a full channel of a live matching subscriber,
\* Serve neither returns nor calls back for another subscriber; it is never
\* blocked on a subscriber whose context is done; and a live matching
\* subscriber the running Serve is past has been sent the update.
C7_Backpressure ==
    /\ (sPc = "send" /\ ~ctxDone[sCur] /\ Len(channel[sCur]) >= BufferLen)
         => /\ ~ENABLED ServeSend
            /\ ~ENABLED ServeEnd
            /\ \A k \in Keys : ~ENABLED ServeVisit(k)
    /\ (sPc = "send" /\ ctxDone[sCur]) => ENABLED ServeSend
    /\ \A k \in Keys :
          (sPc # "idle" /\ k \in sVisited /\ ~(sPc = "send" /\ sCur = k)
             /\ ~ctxDone[k] /\ MatchString(handlers[k], sUpdate.text))
            => \E i \in 1..Len(Delivered(k)) : Delivered(k)[i] = sUpdate

\* Serve is blocked on a live subscriber's full channel while another stored
\* subscriber has not been called back for yet.
C7_Witness ==
    /\ sPc = "send"
    /\ ~ctxDone[sCur]
    /\ Len(channel[sCur]) = BufferLen
    /\ \E j \in store \ sVisited : j # sCur /\ ~ctxDone[j]

\* C8. No retroactive delivery: a channel is created empty, and the only
\* update ever added to a channel is the update of the Serve call that is
\* running, which therefore had not returned when the Register call began.
C8_NoRetroactiveDelivery ==
    [][ \A k \in 1..curKey' :
           LET old == IF k \in Keys THEN channel[k] ELSE <<>>
           IN  Len(channel'[k]) > Len(old) =>
                   /\ sPc = "send"
                   /\ channel'[k] = Append(old, sUpdate)
                   /\ sUpdate.id > ServeReturned ]_vars

\* A match-all subscriber's first update is update 2, although update 1
\* carried a message that another subscriber received.
C8_Witness ==
    \E k \in Keys :
        /\ handlers[k] = <<ReAny>>
        /\ lastRecv[k] = NoUpdate
        /\ Len(channel[k]) = 1 /\ channel[k][1].id = 2
        /\ \E j \in Keys \ {k} : lastRecv[j].id = 1

\* The script of op has the shape of C10: plain errors, then, last, nil or
\* Unrecoverable(e) for an error e.
PlainErrors == {Plain("E1"), Plain("E2")}

C10_FinalErrors == {Plain("E1"), Errorf(Plain("E2"))}

C10_Shape ==
    /\ rPc # "off"
    /\ rEt = <<>>
    /\ \A i \in 1..(Len(rOp) - 1) : rOp[i] \in PlainErrors
    /\ \/ rOp[Len(rOp)] = NilErr
       \/ \E e \in C10_FinalErrors : rOp[Len(rOp)] = Unrecoverable(rVer, e)

\* C10. Retry termination: when op returns plain errors n-1 times and then
\* nil or Unrecoverable(e), Backoff and Static invoke it exactly n times and
\* return nil, respectively e itself.
C10_RetryTermination ==
    /\ C10_Shape => rCalls <= Len(rOp)
    /\ (C10_Shape /\ rCalls < Len(rOp)) => rPc \in {"call", "sleep"}
    /\ (C10_Shape /\ rCalls = Len(rOp)) =>
          /\ rPc = "done"
          /\ \A e \in C10_FinalErrors :
                rOp[Len(rOp)] = Unrecoverable(rVer, e) => rRet = e
          /\ rOp[Len(rOp)] = NilErr => rRet = NilErr

\* Backoff has returned e after two plain errors and Unrecoverable(e).
C10_Witness ==
    /\ C10_Shape
    /\ rStrategy = "Backoff"
    /\ rVer = 1
    /\ Len(rOp) = 3
    /\ rOp[3] = Unrecoverable1(Plain("E1"))
    /\ rPc = "done"
    /\ rCalls = 3
    /\ rRet = Plain("E1")
    /\ rSlept = 100

\* C9. An empty or nil matcher group is rejected. On the multiplexer: no
\* subscription is ever allocated for such a group, and the step in which
\* Register returns ErrNoMatchers changes neither the key counter nor the
\* registry nor any handler or channel. On the gRPC registrar: Register
\* returns its error, no goroutine was started and no RPC issued.
C9_EmptyGroupRejected ==
    [][ /\ \A k \in 1..curKey' : GroupLen(handlers'[k]) >= 1
        /\ (regErr' = "ErrNoMatchers" /\ regErr # "ErrNoMatchers") =>
              UNCHANGED <<curKey, handlers, ctxDone, channel, closes, store,
                          regPending>>
        /\ (gPc = "off" /\ gPc' # "off" /\ GroupLen(gRequest') < 1) =>
              /\ gPc' = "rejected"
              /\ gRegErr' # "nil"
        /\ gPc' = "rejected" =>
              (gGoroutines' = 0 /\ gRpcCalls' = 0 /\ gOut' = <<>>) ]_vars

\* Both Register calls have been rejected after a valid registration on the
\* multiplexer.
C9_Witness ==
    /\ regErr = "ErrNoMatchers"
    /\ curKey = 1
    /\ store = {1}
    /\ gPc = "rejected"
    /\ gRegErr = "cannot register with zero matchers"

\* An error has a layer made by Unrecoverable: a recoverError with a wrapped
\* error (first version), a recoverError that is not recoverable (second).
HasUnrecoverable(ver, err) ==
    \E i \in 1..Len(err) :
        IF ver = 1 THEN err[i] = "recoverError" /\ i < Len(err)
        ELSE err[i] = "unrecoverable"

\* The error Recover looks at in its next pass: op's, transformed.
NextErr == ApplyAll(rVer, rEt, OpResult(rCalls + 1))

\* C11. A transformed error that is neither nil nor wrapped by Unrecoverable
\* makes Recover sleep for the delay of its schedule and invoke op again,
\* whatever the number of attempts made; Recover returns only for a nil or an
\* unrecoverable error.
C11_RecoverableIsRetried ==
    [][ /\ (rPc = "call" /\ NextErr # NilErr
              /\ ~HasUnrecoverable(rVer, NextErr))
           => (rPc' = "sleep" /\ rCalls' = rCalls + 1 /\ rRet' = rRet)
        /\ rPc = "sleep"
           => /\ rPc' = "call"
              /\ rCalls' = rCalls
              /\ rSlept' = IF rStrategy = "Backoff" THEN rNext
                           ELSE DefaultStaticDelay
        /\ (rPc = "call" /\ rPc' = "done")
           => (NextErr = NilErr \/ HasUnrecoverable(rVer, NextErr)) ]_vars

\* Every invocation of the script failed with a recoverable error, each was
\* retried after a sleep, and Recover returned once op succeeded.
C11_Witness ==
    /\ rPc = "done"
    /\ Len(rOp) = MaxCalls
    /\ rCalls = MaxCalls + 1
    /\ rSlept > 0
    /\ \A i \in 1..Len(rOp) :
          /\ ApplyAll(rVer, rEt, rOp[i]) # NilErr
          /\ ~HasUnrecoverable(rVer, ApplyAll(rVer, rEt, rOp[i]))
    /\ \E i \in 1..Len(rOp) : rOp[i] \in PlainErrors
    /\ \E i \in 1..Len(rOp) : rOp[i] \notin PlainErrors

\* What has come out of the output stream so far, read or still buffered.
Emitted == outLog \o out

\* The result wanted for an input item: the error it carries, else the
\* decoded update or the decoding error.
Wanted(item) ==
    IF item.err # NilErr THEN Maybe(ZeroUpdate, item.err)
    ELSE IF item.val.valid THEN Maybe(TgUpdate(item.val.id), NilErr)
    ELSE Maybe(TgUpdate(item.val.id), Plain("jsoniter"))

\* C12. The i-th item on the output stream is the result for the i-th item
\* put on the input stream: nothing reordered, duplicated or made up; and
\* once the consumer has seen the output closed, nothing was lost.
C12_OrderPreserved ==
    /\ Len(Emitted) <= Len(fed)
    /\ \A i \in 1..Len(Emitted) : Emitted[i] = Wanted(fed[i])
    /\ cPc = "closed" => Len(outLog) = Len(fed)

\* A worker has finished a later item while the synchronizing goroutine
\* still waits for an earlier one, after a first item was read.
C12_Witness ==
    /\ Len(outLog) >= 1
    /\ oPc = "recv"
    /\ \E w \in Workers : wPc[w] = "send" /\ wJob[w].ch > oCh
    /\ \A i \in 1..Len(fed) : fed[i].err = NilErr /\ fed[i].val.valid

\* C13. An input item carrying an error comes out at its position with the
\* same error and a zero value, the mapper is never invoked for it, and the
\* output is closed only when the input is: never because of an error item.
C13_ErrorsPassThrough ==
    /\ \A i \in 1..Len(Emitted) :
          fed[i].err # NilErr => Emitted[i] = Maybe(ZeroUpdate, fed[i].err)
    /\ \A c \in mapperCalls :
          fed[c[1]].err = NilErr /\ c[2] = fed[c[1]].val
    /\ \A i \in 1..dCount :
          (fed[i].err = NilErr /\ (i < dCount \/ dPc \notin {"job"})
             /\ (\A j \in 1..Len(jobs) : jobs[j].ch # i))
            => <<i, fed[i].val>> \in mapperCalls
    /\ OutClosed => (rawClosed /\ Len(Emitted) = Len(fed))

\* A passed-through error and an error of the mapper were followed by a
\* mapped update, and the stream was then closed.
C13_Witness ==
    /\ cPc = "closed"
    /\ Len(outLog) = 3
    /\ fed[1].err # NilErr
    /\ outLog[2].err = Plain("jsoniter")
    /\ outLog[3] = Maybe(TgUpdate(3), NilErr)

\* Every goroutine of MappedStream has returned.
MappedExited ==
    /\ dPc = "done"
    /\ \A w \in Workers : wPc[w] = "done"
    /\ oPc = "done"

\* C14. The output is closed only when the input is closed and every item
\* read from it has been emitted; and once the input is closed, with the
\* consumer reading, the output gets closed and every goroutine returns.
C14_ClosedIffDrained ==
    /\ [](OutClosed =>
            /\ rawClosed /\ raw = <<>>
            /\ Len(Emitted) = Len(fed)
            /\ dPc = "done" /\ jobs = <<>> /\ outOrder = <<>>
            /\ \A w \in Workers : wPc[w] \in {"idle", "done"})
    /\ rawClosed ~> (MappedExited /\ cPc = "closed" /\ Len(outLog) = Len(fed))

\* More items than the jobs channel and the workers hold at once went
\* through, the input was closed, and everything has drained and exited.
C14_Witness ==
    /\ MappedExited
    /\ cPc = "closed"
    /\ Len(outLog) = MaxItems

\* C15. Once the consumer has cancelled the context and is in Drain, the
\* streamer and every goroutine of MappedStream return, the streams are
\* closed and Drain returns; Drain returns only on a closed stream.
C15_DrainUnblocks ==
    /\ [](cPc = "drained" => (OutClosed /\ rawClosed /\ lpPc = "done"))
    /\ (cPc = "draining" /\ lpCtxDone)
          ~> (cPc = "drained" /\ lpPc = "done" /\ rawClosed /\ MappedExited)

\* Drain has returned after the consumer stopped with at least two items it
\* never read, and everything has exited.
C15_Witness ==
    /\ cPc = "drained"
    /\ lpCtxDone
    /\ lpPc = "done"
    /\ MappedExited
    /\ Len(fed) >= Len(outLog) + 2

\* The outcomes C16 names.
FatalKinds == {"network", "status", "notok", "garbage"}

\* C16. A non-timeout transport error or a non-200 status seen while the
\* context is live, and an Ok=false or unparsable response, make the
\* streamer send one error item; with that send the stream is closed, the
\* error item is its last item, and no poll follows.
C16_FatalErrorEndsStream ==
    [][ /\ (lpPc = "polled" /\ lpPc' # "polled" /\ lpResp.kind \in FatalKinds
              /\ (lpResp.kind \in {"notok", "garbage"} \/ ~lpCtxDone))
           => (lpPc' = "sendErr" /\ lpErr' # NilErr /\ fed' = fed)
        /\ lpPc = "sendErr"
           => /\ lpPolls' = lpPolls
              /\ \/ lpPc' = "sendErr" /\ fed' = fed /\ ~rawClosed'
                 \/ /\ lpPc' = "done"
                    /\ rawClosed'
                    /\ fed' = Append(fed, Maybe(ZeroRaw, lpErr))
        /\ lpPc = "done"
           => (lpPc' = "done" /\ lpPolls' = lpPolls /\ fed' = fed
                 /\ rawClosed') ]_vars

\* An Ok=false response to the second poll ended a stream that carried
\* updates: the error is the last item and the only error.
C16_Witness ==
    /\ lpPc = "done"
    /\ rawClosed
    /\ lpResp.kind = "notok"
    /\ lpPolls = 2
    /\ Len(fed) >= 2
    /\ fed[Len(fed)].err = Plain("response.Ok is false")
    /\ \A i \in 1..(Len(fed) - 1) : fed[i].err = NilErr

\* C17. Once the context is done the streamer ends silently: what it does
\* with a poll result or at the end of a response under a done context never
\* is to send an error item. (An error chosen just before the cancellation
\* and sent just after it is not counted.)
C17_SilentAfterCancel ==
    [][ (lpCtxDone /\ lpPc \in {"polled", "emit"})
           => lpPc' \notin {"sendErr", "sendTimeout"} ]_vars

\* An error has a layer that carries the request URL.
HasURL(e) == \E i \in 1..Len(e) : e[i] = "url.Error"

\* C18. No error the streamer holds for sending, has put on its stream, or
\* that has come out of the mapped stream carries the request URL.
C18_NoURLInErrors ==
    /\ ~HasURL(lpErr)
    /\ \A i \in 1..Len(fed) : ~HasURL(fed[i].err)
    /\ \A i \in 1..Len(Emitted) : ~HasURL(Emitted[i].err)

\* A failed Client.Do of each kind has been reported on the stream: a
\* timeout, then another transport error.
C18_Witness ==
    /\ Len(fed) >= 2
    /\ fed[1].err = Errorf(Errorf(DeadlineExceeded))
    /\ fed[2].err = Errorf(Plain("dial error"))
    /\ Len(outLog) >= 2

\* The request's metadata holds exactly one authorization value, no
\* authenticated_client value, and the authenticator accepts the token.
Accepted(md) ==
    /\ md.has
    /\ Len(md.tok) = 1
    /\ Len(md.cli) = 0
    /\ Authenticate(md.tok[1]).err = NilErr

\* C19: the interceptor, unary or streaming, invokes the handler only when
\* the incoming metadata holds exactly one authorization value and no
\* authenticated_client value and the authenticator accepts the token; in
\* every other case it has returned Unauthenticated and the handler was not
\* invoked.
C19_HandlerOnlyWhenAccepted ==
    /\ aCalls > 0 => Accepted(aMd)
    /\ (aPc \in {"rejected", "handler", "done"} /\ ~Accepted(aMd))
          => (aRet = "Unauthenticated" /\ aCalls = 0 /\ aPc = "rejected")

\* A streaming request with a good token that also carries a caller-supplied
\* authenticated_client value has been rejected.
C19_Witness ==
    /\ aKind = "stream"
    /\ aPc = "rejected"
    /\ aMd.tok = <<"t1">>
    /\ Len(aMd.cli) = 1
    /\ aRet = "Unauthenticated"
    /\ aCalls = 0

\* The handler's ClientFromCtx returned the authenticator's Client for the
\* request's token.
HandlerGetsAuthenticated ==
    aPc = "done"
       => /\ aGot.err = NilErr
          /\ aGot.client = Authenticate(aMd.tok[1]).client

\* A Client that ClientFromCtx returned was not read from a value the caller
\* supplied under authenticated_client.
NoCallerSuppliedClient ==
    (aPc \in {"done", "raw"} /\ aGot.err = NilErr) => aMd.cli = <<>>

\* ClientFromCtx on a context that did not pass the interceptor returned an
\* error.
RawContextIsError ==
    aPc = "raw" => aGot.err # NilErr

\* C20: whenever a handler is invoked, ClientFromCtx on its context returns
\* the Client the authenticator returned for the request's token, whatever
\* metadata the caller supplied; a value the caller supplied under
\* authenticated_client is never returned; and ClientFromCtx on a context
\* that did not pass the interceptor returns an error.
C20_OnlyAuthenticatedClient ==
    /\ HandlerGetsAuthenticated
    /\ NoCallerSuppliedClient
    /\ RawContextIsError

\* C21: Authenticate(token) returns the Client stored for token, and no
\* error, exactly when token is a key of the table given at construction;
\* for every other token, also with a nil or an empty table, it returns
\* ErrInvalidToken and the zero Client.
C21_AuthenticateIsTableLookup ==
    saPc = "called" =>
        /\ (saToken \in saGiven.keys) <=> (saRes.err = NilErr)
        /\ saToken \in saGiven.keys => saRes.client = saGiven.at[saToken]
        /\ saToken \notin saGiven.keys =>
              (saRes.err = ErrInvalidToken /\ saRes.client = Client(""))

\* The caller added the token to its map after construction; the
\* authenticator still rejects it.
C21_Witness ==
    /\ saPc = "called"
    /\ ~saGiven.nil
    /\ saToken = "goodtoken"
    /\ saToken \in saCaller.keys
    /\ saToken \notin saGiven.keys
    /\ saRes.err = ErrInvalidToken

\* The ids of the updates Recv returned, and of those the consumer
\* received, in order.
IdsOf(calls) ==
    LET ups == SelectSeq(calls, LAMBDA c : c.res = "update")
    IN  [i \in 1..Len(ups) |-> ups[i].id]

ReceivedIds == IdsOf(gLog)

DeliveredIds ==
    LET ups == SelectSeq(gOut, LAMBDA u : u.kind = "update")
    IN  [i \in 1..Len(ups) |-> ups[i].id]

ErrorItems == SelectSeq(gOut, LAMBDA u : u.kind = "error")

\* The RegisterHandler calls that failed with Unavailable since the last
\* call that did not.
RECURSIVE TrailingUnavailable(_)
TrailingUnavailable(calls) ==
    IF calls = <<>> THEN 0
    ELSE LET c == calls[Len(calls)]
         IN  IF c.op = "dial" /\ c.res = "Unavailable"
             THEN 1 + TrailingUnavailable(SubSeq(calls, 1, Len(calls) - 1))
             ELSE 0

\* The k-th delay of Backoff.
RECURSIVE BackoffDelay(_)
BackoffDelay(k) ==
    IF k <= 1 THEN DefaultBackoffMinDelay
    ELSE BackoffNext(BackoffDelay(k - 1))

\* Nothing but RegisterHandler calls failing with Unavailable has gone
\* wrong so far.
OnlyUnavailableDials ==
    \A i \in 1..Len(gLog) :
        \/ gLog[i].op = "dial" /\ gLog[i].res \in {"OK", "Unavailable"}
        \/ gLog[i].op = "recv" /\ gLog[i].res = "update"

\* After an Unavailable RegisterHandler the goroutine sleeps the backoff
\* delay and calls again; while only such calls have failed nothing is
\* surfaced and every update received is delivered, but for one still being
\* sent or dropped at a done context.
C22_RetriedWithBackoff ==
    /\ TrailingUnavailable(gLog) > 0 =>
          /\ gPc \in {"dialSleep", "dial"}
          /\ gPending = NoPending
          /\ gPc = "dial" => gSlept = BackoffDelay(TrailingUnavailable(gLog))
    /\ OnlyUnavailableDials =>
          /\ ErrorItems = <<>>
          /\ gPending.kind # "error"
          /\ gPc \notin {"sendErr", "staticSleep"}
          /\ gPc = "closed" => gCtxDone
          /\ IF gPc = "send" \/ gPc = "closed"
             THEN \/ DeliveredIds = ReceivedIds
                  \/ DeliveredIds \o <<ReceivedIds[Len(ReceivedIds)]>> = ReceivedIds
             ELSE DeliveredIds = ReceivedIds

\* C22: a RegisterHandler call that fails with Unavailable is retried after
\* the backoff delay, again and again until a call succeeds; as long as
\* nothing else has failed no error is surfaced, the channel stays open while
\* the context is live, and the updates of the stream obtained reach the
\* consumer. Every backoff sleep is followed by the next call.
C22_ReconnectAfterUnavailableDial ==
    /\ []C22_RetriedWithBackoff
    /\ (gPc = "dialSleep") ~> (gPc = "dial")

\* Unavailable twice, then a stream that yields update 1: the consumer has
\* update 1 and nothing else.
C22_Witness ==
    /\ gLog = << Call("dial", "Unavailable", 0), Call("dial", "Unavailable", 0),
                 Call("dial", "OK", 0), Call("recv", "update", 1) >>
    /\ gOut = << [kind |-> "update", id |-> 1, err |-> NilErr] >>
    /\ gSlept = 2 * DefaultBackoffMinDelay
    /\ ~gCtxDone

LastCall == gLog[Len(gLog)]

\* Every call that failed so far failed with Unavailable.
OnlyUnavailable ==
    \A i \in 1..Len(gLog) : gLog[i].res \in {"OK", "update", "Unavailable"}

\* a is b, or b without its last element.
AllButLastOf(a, b) ==
    \/ a = b
    \/ Len(b) > 0 /\ a = SubSeq(b, 1, Len(b) - 1)

\* After an Unavailable Recv the goroutine sleeps the static delay and calls
\* RegisterHandler with a fresh Backoff; while only Unavailable failures have
\* happened there is no error item, the channel is open unless the context is
\* done, and the updates delivered are those received, in their order.
C23_ReopenedAfterStaticDelay ==
    /\ (gLog # <<>> /\ LastCall.op = "recv" /\ LastCall.res = "Unavailable") =>
          /\ gPc \in {"staticSleep", "dial"}
          /\ gPending = NoPending
          /\ gPc = "dial" =>
                (gSlept = DefaultStaticDelay /\ gNext = DefaultBackoffMinDelay)
    /\ OnlyUnavailable =>
          /\ ErrorItems = <<>>
          /\ gPc # "sendErr"
          /\ gPc = "closed" => gCtxDone
          /\ AllButLastOf(DeliveredIds, ReceivedIds)
          /\ gPc \in {"dial", "dialSleep", "staticSleep", "recv"} =>
                DeliveredIds = ReceivedIds

\* C23: when Recv on an open stream fails with Unavailable the registrar
\* sleeps the static delay and opens a new RegisterHandler stream with the
\* same request; the consumer receives the updates of the successive streams
\* in order on the one channel, with no error item and with no close in
\* between.
C23_StreamReconnect ==
    /\ []C23_ReopenedAfterStaticDelay
    /\ [][gPc \notin {"off", "rejected"} => gRequest' = gRequest]_vars
    /\ (gPc = "staticSleep") ~> (gPc = "dial")

\* A stream yields update 1 and breaks with Unavailable; the next stream
\* yields another update; the consumer has both, in order.
C23_Witness ==
    /\ gLog = << Call("dial", "OK", 0), Call("recv", "update", 1),
                 Call("recv", "Unavailable", 0), Call("dial", "OK", 0),
                 Call("recv", "update", 3) >>
    /\ gOut = << [kind |-> "update", id |-> 1, err |-> NilErr],
                 [kind |-> "update", id |-> 3, err |-> NilErr] >>
    /\ gSlept = DefaultStaticDelay
    /\ ~gCtxDone

CleanCodes == {"Canceled", "DeadlineExceeded"}

\* A RegisterHandler or Recv that failed with Canceled or DeadlineExceeded
\* has closed the channel: no error item, nothing pending, and every update
\* received before it delivered.
C24_ClosedAfterCanceled ==
    (gLog # <<>> /\ LastCall.res \in CleanCodes) =>
        /\ gPc = "closed"
        /\ gPending = NoPending
        /\ ErrorItems = <<>>
        /\ DeliveredIds = ReceivedIds

\* The select of tryRegister is left without a delivery only when the
\* context is done, and then the channel is closed with nothing pending and
\* no error item, and every update received was delivered.
C24_ContextDoneDeliversAll ==
    (gPc = "send" /\ gPc' # "send" /\ gOut' = gOut) =>
        /\ gCtxDone
        /\ gPc' = "closed"
        /\ gPending' = NoPending
        /\ ErrorItems' = <<>>
        /\ DeliveredIds' = ReceivedIds'

\* The select of tryRegister is left without a delivery only when the
\* context is done, and then the channel is closed with nothing pending and
\* no error item; the update that was in the select is dropped, and every
\* update received before it was delivered.
C24_ClosedOnContextDone ==
    (gPc = "send" /\ gPc' # "send" /\ gOut' = gOut) =>
        /\ gCtxDone
        /\ gPc' = "closed"
        /\ gPending' = NoPending
        /\ ErrorItems' = <<>>
        /\ ReceivedIds' # <<>>
        /\ DeliveredIds' = SubSeq(ReceivedIds', 1, Len(ReceivedIds') - 1)

\* Once the channel is closed there is no further call and no further item.
C24_NoRetryAfterClose ==
    gPc = "closed" => (gPc' = "closed" /\ gLog' = gLog /\ gOut' = gOut)

\* C24 as stated: clean shutdown. When RegisterHandler or Recv fails with
\* Canceled or DeadlineExceeded, or the registration context is done, the
\* registrar does not retry, emits no error, and closes the channel after
\* every update it received was delivered.
C24_ShutdownDeliversAll ==
    /\ []C24_ClosedAfterCanceled
    /\ [][C24_ContextDoneDeliversAll]_vars
    /\ [][C24_NoRetryAfterClose]_vars

\* C24: clean shutdown. When RegisterHandler or Recv fails with Canceled or
\* DeadlineExceeded, or the goroutine finds the registration context done,
\* the registrar does not retry, emits no error, and closes the channel.
\* After a Canceled or DeadlineExceeded call every update received was
\* delivered; when the context is found done in the select, the one update
\* being handed over is dropped and every earlier one was delivered.
C24_CleanShutdown ==
    /\ []C24_ClosedAfterCanceled
    /\ [][C24_ClosedOnContextDone]_vars
    /\ [][C24_NoRetryAfterClose]_vars

\* Update 1 was delivered; the context is cancelled while update 2 is in
\* the select: the channel is closed with no error and without update 2.
C24_Witness ==
    /\ gLog = << Call("dial", "OK", 0), Call("recv", "update", 1),
                 Call("recv", "update", 2) >>
    /\ gOut = << [kind |-> "update", id |-> 1, err |-> NilErr] >>
    /\ gCtxDone
    /\ gPending = NoPending
    /\ gPc = "closed"

\* A call result that is neither a success nor Unavailable, Canceled or
\* DeadlineExceeded.
Fatal(res) == res \notin {"OK", "update", "Unavailable"} \cup CleanCodes

\* The error of a failed call.
CauseOf(res) == IF res = "json" THEN JSONError ELSE Status(res)

FatalItem(res) == [kind |-> "error", id |-> 0, err |-> Errorf(CauseOf(res))]

\* After a fatal call the goroutine is sending the error that wraps its
\* cause, with no error delivered yet, or has closed the channel with that
\* error as the only error item and the last item.
C25_OneErrorThenClose ==
    (gLog # <<>> /\ Fatal(LastCall.res)) =>
        /\ gPc \in {"sendErr", "closed"}
        /\ gPc = "sendErr" =>
              (gPending = FatalItem(LastCall.res) /\ ErrorItems = <<>>)
        /\ gPc = "closed" =>
              /\ ErrorItems = <<FatalItem(LastCall.res)>>
              /\ gOut[Len(gOut)] = FatalItem(LastCall.res)
              /\ gPending = NoPending
        /\ AllButLastOf(gOut, SelectSeq(gOut, LAMBDA u : u.kind = "update")
                                 \o <<FatalItem(LastCall.res)>>)

\* After a fatal call no further call is made.
C25_NoRetry ==
    (gLog # <<>> /\ Fatal(LastCall.res)) => gLog' = gLog

\* C25: a RegisterHandler or Recv error whose status is not Unavailable,
\* Canceled or DeadlineExceeded, or an update whose JSON does not parse,
\* stops the registrar without a retry; it surfaces exactly one error, as
\* the last item, and closes the channel once a receiving consumer took it.
C25_UnrecoverableSurfaced ==
    /\ []C25_OneErrorThenClose
    /\ [][C25_NoRetry]_vars
    /\ (gPc = "sendErr" /\ gConsuming) ~> (gPc = "closed" \/ ~gConsuming)

\* An update was delivered, the next one has bad JSON: the consumer has the
\* update and then the error, and the channel is closed.
C25_Witness ==
    /\ gLog = << Call("dial", "OK", 0), Call("recv", "update", 1),
                 Call("recv", "json", 0) >>
    /\ gOut = << [kind |-> "update", id |-> 1, err |-> NilErr],
                 FatalItem("json") >>
    /\ gPc = "closed"

\* C26: after the context passed to Register is cancelled the goroutine
\* Register started always terminates and closes its channel, also when
\* the consumer has stopped receiving and when a fatal error is waiting to
\* be delivered.
C26_CancelledAlwaysCloses ==
    (gCtxDone /\ gGoroutines > 0) ~> (gPc = "closed")

\* errors.Is(err, target) for a target that is itself a chain: target is
\* err or one of the errors err wraps.
Wraps(err, target) ==
    \E k \in 1..Len(err) : SubSeq(err, k, Len(err)) = target

\* C27: when the update stream fails with an unrecoverable error,
\* RegisterAndRun returns an error that is or wraps that error; it returns
\* only for such an error or a done context, never for a transient
\* Unavailable failure.
C27_RunReturnsFatalError ==
    gRun.pc = "returned" =>
        /\ ErrorItems # <<>> =>
              (gRun.ret # NilErr /\ Wraps(gRun.ret, ErrorItems[1].err))
        /\ ErrorItems = <<>> => (gCtxDone /\ gRun.ret = NilErr)

\* C28: an update the server serialized to JSON and the registrar client
\* deserialized equals the original: Deserialize(Serialize(u)) = u, for
\* every update that flows through RegisterHandler.
C28_RoundTrip ==
    jPc = "done" => (jGot.err = NilErr /\ jGot.val = jUpd)

\* C29: a RegisterHandler request with zero matchers, or with a matcher
\* that does not compile, is answered with InvalidArgument and creates no
\* subscription in the multiplexer.
C29_InvalidRequestRejected ==
    (hPc = "returned" /\ ~ValidRequest(hReq))
        => (hRet = "InvalidArgument" /\ curKey = 0 /\ store = {})

\* The half of C29 the server does keep: no call creates a subscription.
NoSubscriptionCreated == curKey = 0 /\ store = {} /\ regPending = {}

\* C30: for a valid request the server registers the matcher group in the
\* multiplexer and does not return before the stream's context is done,
\* the subscription channel is closed or a send failed; what it sent is
\* what it read from the channel, in order.
C30_ValidRequestSubscribes ==
    (hPc = "returned" /\ ValidRequest(hReq))
        => /\ curKey >= 1
           /\ handlers[1] = GroupOf(hReq)
           /\ hCtxDone \/ closes[1] > 0 \/ hRet # "OK"

\* C39: the static implementation's token table is immutable after
\* construction: whatever the caller adds to, changes in or removes from the
\* map it passed to the constructor, the table holds the entries the map had
\* at construction, and every later Authenticate answers from those.
C39_TableImmutable ==
    saPc \in {"built", "called"} =>
        /\ saAuth.keys = saGiven.keys
        /\ saAuth.at = saGiven.at
        /\ saPc = "called" =>
              saRes = (IF saCtor = "NewStaticAuthProvider"
                       THEN StaticProviderAuthenticate(saGiven, saToken)
                       ELSE StaticAuthenticate(saGiven, saToken))

RECURSIVE Pow2(_)
Pow2(n) == IF n = 0 THEN 1 ELSE 2 * Pow2(n - 1)

\* min(50 ms * 2^(k-1), 10 min) in milliseconds.
CappedDelay(k) ==
    IF 50 * Pow2(k - 1) < 600000 THEN 50 * Pow2(k - 1) ELSE 600000

\* Recover is about to invoke f again after its k-th sleep.
AfterSleep(k) == rPc = "call" /\ rCalls = k /\ k >= 1

C38_DelayOfKthRetry ==
    \A k \in 1..(MaxRetries + 1) :
        AfterSleep(k) =>
            rSlept = (IF rStrategy = "Backoff" THEN CappedDelay(k) ELSE 1000)

C38_DelayNeverDecreases ==
    [][rSlept' >= rSlept /\ rSlept' <= 600000]_vars

\* C38: the delay Backoff sleeps before its k-th retry is
\* min(50 ms * 2^(k-1), 10 min): 50 ms first, doubling, never decreasing,
\* never above 10 minutes; Static sleeps 1 s before every retry.
C38_Schedule == []C38_DelayOfKthRetry /\ C38_DelayNeverDecreases

\* Backoff has slept 409.6 s and then the capped 10 minutes, before its
\* 14th and 15th retry.
C38_Witness ==
    /\ rStrategy = "Backoff"
    /\ AfterSleep(15)
    /\ rSlept = 600000
    /\ CappedDelay(14) = 409600
    /\ rNext = 600000

\* The update_ids put on the stream while handling poll number p.
RECURSIVE EmittedIds(_, _)
EmittedIds(items, p) ==
    IF items = <<>> THEN <<>>
    ELSE IF Head(items).kind = "update" /\ Head(items).poll = p
         THEN <<Head(items).id>> \o EmittedIds(Tail(items), p)
         ELSE EmittedIds(Tail(items), p)

LastOf(ids) == ids[Len(ids)]

\* Every fragment of a result is on the stream, in array order, when the
\* next poll is due.
C35_EmittedBeforeNextPoll ==
    (qPc = "poll" /\ ~qCtxDone /\ qPolls >= 1 /\ qResp.kind = "ok")
        => EmittedIds(qEmitted, qPolls) = qResp.ids

\* The offset the request after poll req carries, by the claim.
OffsetAfter(req) ==
    IF req.resp.kind = "ok" /\ req.resp.ids # <<>>
    THEN LastOf(req.resp.ids) + 1
    ELSE req.offset

\* The offset a request carries follows from the poll before it; so does
\* the offset held for the request that is due.
C35_OffsetOfNextRequest ==
    /\ \A i \in 2..Len(qReqs) :
          qReqs[i].live => qReqs[i].offset = OffsetAfter(qReqs[i-1])
    /\ (qPc = "poll" /\ ~qCtxDone /\ qReqs # <<>>)
          => qOffset = OffsetAfter(qReqs[Len(qReqs)])

\* C35: the streamer emits the fragments of a poll result in array order
\* before it issues the next poll; after a non-empty result the next
\* getUpdates request carries offset = update_id of the last update of
\* that result + 1, after an empty result or a timed-out poll the offset is
\* unchanged.
C35_OffsetAdvancement ==
    /\ C35_EmittedBeforeNextPoll
    /\ C35_OffsetOfNextRequest
    /\ Len(qReqs) >= 1 => qReqs[1].offset \in StartOffsets

\* A result of two updates, then an empty result: the second request
\* carried the last update_id + 1 and the one that is due carries the same.
C35_Witness ==
    /\ Len(qReqs) = 2
    /\ qPc = "poll"
    /\ ~qCtxDone
    /\ qReqs[1].resp = Result(<<1, MaxUpdateID>>)
    /\ qReqs[2].resp = Result(<<>>)
    /\ qReqs[2].offset = MaxUpdateID + 1
    /\ qOffset = MaxUpdateID + 1
    /\ EmittedIds(qEmitted, 1) = <<1, MaxUpdateID>>

\* The largest update_id among the updates of polls 1..n.
RECURSIVE MaxSeen(_, _)
MaxSeen(reqs, n) ==
    IF n = 0 THEN -1
    ELSE LET rest == MaxSeen(reqs, n - 1)
             ids == reqs[n].resp.ids
             here == IF ids = <<>> THEN -1
                     ELSE CHOOSE m \in { ids[j] : j \in 1..Len(ids) } :
                            \A j \in 1..Len(ids) : ids[j] <= m
         IN  IF here > rest THEN here ELSE rest

\* C36: over the lifetime of a streamer the offset never decreases, across
\* any sequence of poll responses, timeouts and errors, and after each
\* non-empty poll it equals max(update_id) + 1 of the updates seen.
C36_OffsetMonotonic ==
    \A i \in 2..Len(qReqs) :
        /\ qReqs[i].offset >= qReqs[i-1].offset
        /\ (qReqs[i].live /\ qReqs[i-1].resp.kind = "ok"
                /\ qReqs[i-1].resp.ids # <<>>)
              => qReqs[i].offset = MaxSeen(qReqs, i - 1) + 1

\* Poll i was answered as Telegram answers: update_ids ascending and none
\* below the offset requested.
Ordered(req) ==
    /\ \A j \in 1..Len(req.resp.ids) : req.resp.ids[j] >= req.offset
    /\ \A j \in 2..Len(req.resp.ids) : req.resp.ids[j-1] < req.resp.ids[j]

\* What holds of the offset: it never decreases, and is max(update_id) + 1,
\* as long as every response was ordered.
OffsetMonotonicIfOrdered ==
    \A i \in 2..Len(qReqs) :
        (\A j \in 1..(i-1) : Ordered(qReqs[j])) =>
            /\ qReqs[i].offset >= qReqs[i-1].offset
            /\ (qReqs[i].live /\ qReqs[i-1].resp.kind = "ok"
                    /\ qReqs[i-1].resp.ids # <<>>)
                  => qReqs[i].offset = MaxSeen(qReqs, i - 1) + 1

\* fmt.Errorf("temporary timeout while polling: %w", err) of poll's error
\* for a request that ran into the poll's deadline.
TemporaryTimeout == Errorf(Errorf(DeadlineExceeded))

\* Stream has found the poll timed out and the context live.
C37_TimeoutHeld ==
    lpPc = "sendTimeout" =>
        /\ lpResp.kind = "timeout"
        /\ lpErr = TemporaryTimeout
        /\ ~rawClosed

\* Handling a timed-out poll under a live context leads to the send of the
\* timeout item and to nothing else; nothing else leads there.
C37_TimeoutHandled ==
    [][ /\ (lpPc = "polled" /\ lpResp.kind = "timeout" /\ ~lpCtxDone
                /\ lpPc' # lpPc)
            => (lpPc' = "sendTimeout" /\ fed' = fed /\ ~rawClosed')
        /\ (lpPc # "sendTimeout" /\ lpPc' = "sendTimeout")
            => (lpPc = "polled" /\ lpResp.kind = "timeout") ]_vars

\* The send puts exactly one item, the timeout error, on the stream, leaves
\* the stream open and goes on to the next poll; no other step puts a
\* timeout item on the stream.
C37_OneItemThenPoll ==
    [][ /\ (lpPc = "sendTimeout" /\ lpPc' # lpPc)
            => /\ fed' = Append(fed, Maybe(ZeroRaw, TemporaryTimeout))
               /\ lpPc' = "poll"
               /\ ~rawClosed'
        /\ (lpPc # "sendTimeout" /\ fed' # fed)
            => fed'[Len(fed')].err # TemporaryTimeout ]_vars

\* C37: a poll that fails with a deadline error while the stream's context
\* is not done makes the streamer emit exactly one temporary-timeout error
\* item for that poll, keep the stream open and go on to another poll; a
\* timeout never terminates the stream.
C37_TimeoutIsTemporary ==
    []C37_TimeoutHeld /\ C37_TimeoutHandled /\ C37_OneItemThenPoll

\* A timeout item on the stream is followed by an update of a later poll.
C37_Witness ==
    /\ Len(fed) >= 2
    /\ fed[1].err = TemporaryTimeout
    /\ fed[2].err = NilErr
    /\ lpPolls = 2
    /\ ~rawClosed

\* Every Register call that allocates takes the next key: larger than every
\* key handed out before, and handed out to this call only.
C34_KeysDistinctAndIncreasing ==
    [][ /\ curKey' >= curKey
        /\ curKey' # curKey =>
              /\ curKey' = curKey + 1
              /\ curKey' \notin (store \cup regPending)
              /\ regPending' = regPending \cup {curKey'}
              /\ store' = store ]_vars

\* A key that was allocated is with a Register call that has not stored it
\* yet, or in the registry, or was removed with its context done.
C34_NoKeyLost ==
    \A k \in Keys :
        \/ k \in regPending /\ k \notin store
        \/ k \in store /\ k \notin regPending /\ closes[k] = 0
        \/ k \notin store /\ k \notin regPending /\ ctxDone[k] /\ closes[k] = 1

\* Register returning puts the key into the registry; a key leaves the
\* registry only when Serve removes it, its context being done.
C34_RegistryChanges ==
    [][ \A k \in Keys :
           /\ (k \in regPending /\ k \notin regPending') => k \in store'
           /\ (k \in store /\ k \notin store') =>
                 /\ ctxDone[k]
                 /\ sPc \in {"range", "send"}
                 /\ closes'[k] = 1 ]_vars

\* When a Serve call returns, every subscription that was registered when
\* it started and whose group matches the update has the update (in its
\* channel, or received), unless Serve removed it, its context being done.
C34_ServedToAllRegistered ==
    [][ (sPc = "range" /\ sPc' = "idle") =>
           \A k \in sTodo :
              MatchString(handlers[k], sUpdate.text) =>
                 \/ k \notin store /\ ctxDone[k]
                 \/ \E i \in 1..Len(channel[k]) : channel[k][i] = sUpdate
                 \/ lastRecv[k] = sUpdate ]_vars

\* C34: concurrent Register calls on one multiplexer, also concurrent with
\* a running Serve, each obtain a distinct key, keys increase with
\* allocation, and no registration is lost: a registered subscription stays
\* in the registry and receives the matching updates of all Serve calls
\* started after Register returned, until Serve removes it because its
\* context is done.
C34_ConcurrentRegister ==
    /\ C34_KeysDistinctAndIncreasing
    /\ []C34_NoKeyLost
    /\ C34_RegistryChanges
    /\ C34_ServedToAllRegistered

\* Two Register calls that had both allocated before either stored, the
\* second storing while Serve was in its Range: both are registered, and
\* the second update is with both.
C34_Witness ==
    /\ curKey = 2
    /\ store = {1, 2}
    /\ handlers[1] = <<ReAny>>
    /\ handlers[2] = <<ReAny>>
    /\ nServed = 2
    /\ sPc = "idle"
    /\ lastRecv[1].id = 1
    /\ lastRecv[2] = NoUpdate
    /\ channel[1] = <<Update(2, TRUE, TextA)>>
    /\ channel[2] = <<Update(2, TRUE, TextA)>>

\* ------------------------------------------------------------------ C40
GetConfigCalls == SelectSeq(clLog, LAMBDA c : c.op = "GetConfig")

InvalidFields == ~clIn.logger \/ ~clIn.handler \/ clIn.matchers < 1

\* Invalid input: Run makes no dial and no RPC, and returns the error.
C40_ValidationBeforeDial ==
    InvalidFields =>
        /\ clLog = <<>>
        /\ clPc \in {"init", "returned"}
        /\ clPc = "returned" => clRet # NilErr

\* Every RegisterHandler call comes after a GetConfig call that succeeded.
C40_ConfigBeforeRegister ==
    \A i \in 1..Len(clLog) :
        clLog[i].op = "RegisterHandler" =>
            \E j \in 1..(i - 1) :
                clLog[j].op = "GetConfig" /\ clLog[j].res = "OK"

\* A GetConfig call is followed by another only if it ended Unavailable,
\* and the k-th retry comes after a sleep of 50 ms * 2^(k-1).
C40_RetryOnlyOnUnavailable ==
    /\ \A i \in 1..(Len(GetConfigCalls) - 1) :
           GetConfigCalls[i].res = "Unavailable"
    /\ (clPc = "config" /\ Len(GetConfigCalls) >= 1) =>
           /\ clSlept = CappedDelay(Len(GetConfigCalls))
           /\ GetConfigCalls[Len(GetConfigCalls)].res = "Unavailable"

\* Any other GetConfig error: Run has returned it, wrapped, and the call is
\* the last thing Run did.
C40_OtherErrorReturned ==
    \A i \in 1..Len(clLog) :
        (clLog[i].op = "GetConfig" /\ clLog[i].res \notin {"OK", "Unavailable"})
            => /\ i = Len(clLog)
               /\ clPc = "returned"
               /\ clRet = Errorf(Status(clLog[i].res))
               /\ rgPc = "off"

\* After Run has returned, no RPC is made under a live context.
C40_NoRpcAfterReturn ==
    [][clPc = "returned" =>
           SelectSeq(clLog', LAMBDA c : c.live) = SelectSeq(clLog, LAMBDA c : c.live)]_vars

\* C40: Run goes through validation, GetConfig, RegisterHandler and the
\* update loop in that order: invalid input fails before any dial,
\* RegisterHandler is never called before a GetConfig call has succeeded,
\* GetConfig is retried with backoff only on Unavailable, any other GetConfig
\* error makes Run return that failure without registering, and after Run
\* has returned it makes no further RPC.
C40_RunPhases ==
    /\ [](/\ C40_ValidationBeforeDial
          /\ C40_ConfigBeforeRegister
          /\ C40_RetryOnlyOnUnavailable
          /\ C40_OtherErrorReturned)
    /\ C40_NoRpcAfterReturn

\* GetConfig was retried once after Unavailable, RegisterHandler was called
\* and failed for good, and Run has returned that.
C40_Witness ==
    /\ clPc = "returned"
    /\ Len(clLog) = 4
    /\ clLog[2] = Rpc("GetConfig", "Unavailable", TRUE)
    /\ clLog[3] = Rpc("GetConfig", "OK", TRUE)
    /\ clLog[4] = Rpc("RegisterHandler", "Unauthenticated", TRUE)
    /\ clSlept = DefaultBackoffMinDelay
    /\ clRet = Errorf(Status("Unauthenticated"))

\* ------------------------------------------------------------------ C33
\* C33: the run loop calls the handler exactly once for each update received
\* from the stream, in receipt order, and for nothing else: no zero Update
\* after the registrar has closed the update channel.
C33_HandlerOncePerUpdate ==
    /\ Len(clHandled) <= rgUpdates
    /\ \A i \in 1..Len(clHandled) : clHandled[i] = i

\* ------------------------------------------------------------------ C31
\* C31: a handler call that has not returned does not keep Run from
\* receiving the next update and calling the handler for it.
C31_HandlerDoesNotBlockRun ==
    (clPc = "handling" /\ rgPc = "send" /\ Len(clHandled) < MaxHandled)
        => ENABLED (\E pc \in {"loop", "handling"} :
                       /\ clPc = pc
                       /\ clHandled' = Append(clHandled, rgUpdates)
                       /\ RunNext)


\* ------------------------------------------------------------------ C32
\* path = "/proxy" token "/" method with a token and a method of at least
\* one character each.
SplitsAs(path, token, method) ==
    /\ Len(token) >= 1
    /\ Len(method) >= 1
    /\ path = Chars("/proxy") \o token \o <<"/">> \o method

\* The ways to read the request's path as /proxy{token}/{method}.
Splits ==
    {<<SubSeq(mwPath, 7, i), SubSeq(mwPath, i + 2, Len(mwPath))>> :
        i \in {k \in 7..(Len(mwPath) - 2) : mwPath[k + 1] = "/"}}

\* Some reading of the path has a token made of word characters and a
\* method on one line.
WellFormed ==
    \E sp \in Splits :
        /\ SplitsAs(mwPath, sp[1], sp[2])
        /\ \A k \in 1..Len(sp[1]) : IsWord(sp[1][k])
        /\ \A k \in 1..Len(sp[2]) : sp[2][k] # "\n"

\* The next handler was called: with /{method} and the client of {token},
\* for a reading of the path whose token authenticates.
C32_ForwardedOnlyAuthenticated ==
    mwNext.called =>
        \E sp \in Splits :
            /\ SplitsAs(mwPath, sp[1], sp[2])
            /\ sp[1] \in DOMAIN PathClients
            /\ mwStatus = 0
            /\ mwNext = Forwarded(<<"/">> \o sp[2], TRUE, PathClients[sp[1]])

\* The next handler was not called: 400 for a malformed path, 401 for a
\* well-formed one whose token does not authenticate.
C32_RejectedOtherwise ==
    ~mwNext.called =>
        /\ mwStatus \in {StatusBadRequest, StatusUnauthorized}
        /\ mwStatus = StatusBadRequest <=> ~WellFormed
        /\ mwStatus = StatusUnauthorized =>
               \A sp \in Splits :
                   (\A k \in 1..Len(sp[1]) : IsWord(sp[1][k]))
                       => sp[1] \notin DOMAIN PathClients

\* C32: with an authenticator configured, the auth middleware passes a
\* request on only if its path is /proxy{token}/{method} and the token
\* authenticates, and then with path /{method} and the authenticated
\* client; otherwise it answers 400 or 401 and does not call the next
\* handler.
C32_AuthMiddleware ==
    (mwPc = "served" /\ mwHasAuth) =>
        C32_ForwardedOnlyAuthenticated /\ C32_RejectedOtherwise

\* A request for /proxytu/t was passed on as /t for bob.
C32_Witness ==
    /\ mwPc = "served"
    /\ mwHasAuth
    /\ mwPath = Chars("/proxy") \o <<"t", "u", "/", "t">>
    /\ mwStatus = 0
    /\ mwNext = Forwarded(<<"/", "t">>, TRUE, Client("bob"))


====
